---------------------------- MODULE Spec2Model ----------------------------
(***************************************************************************)
(* Model of the synchronization core of anote: the per-note write          *)
(* coalescer of src/src/render.js (saveTimeouts, lastSaved, persistNote,   *)
(* scheduleSave, flushPendingSaves, updateNoteTitle, updateNoteBody,       *)
(* deleteNote), the lazy body load of renderEditorPanel, the bulk load of  *)
(* src/src/state.js, and the two collaborators whose code is not part of   *)
(* the source tree: the canonical store with its conflict signal and the   *)
(* sync watcher, both written down from spec.md.                           *)
(*                                                                         *)
(* Time is the value of Date.now(): a non-decreasing integer.  Several     *)
(* handlers can run within the same millisecond (the perf scenarios call   *)
(* window.updateNoteBody and window.updateNoteTitle in a loop), so two     *)
(* edits may carry the same timestamp.  A 300 ms timeout that was armed at *)
(* time t can only fire at a time strictly greater than t.                 *)
(***************************************************************************)
EXTENDS Integers, FiniteSets, Sequences, TLC

NoteIds == {"n1", "n2"}
FolderIds == {"f1", "f2"}
TagIds == {"t1"}
Titles == {"a", "b"}
Bodies == {"x"}

\* note.body of a note whose body has not been fetched yet (state.js:75).
Null == "null"
None == "none"

MaxTime == 2
MaxEdits == 2
MaxExternal == 1
\* Edits in the behaviours with the external writer and the sync watcher.
MaxSyncEdits == 1

VARIABLES
    now,            \* Date.now()
    notes,          \* state.notesById: id -> note object (live = it is in the cache)
    saveTimeouts,   \* render.js:1408, id -> pending timer and the note its closure holds
    lastSaved,      \* render.js:1409
    inflight,       \* invoke() calls issued to the store and not yet answered
    store,          \* the canonical store's notes
    token,          \* the store's sync token
    watcher,        \* sync watcher state
    forced,         \* the running check was forced
    fetched,        \* token fetched by the running check
    lastToken,      \* last observed token
    nedits,         \* history: number of edits made so far
    nexternal,      \* history: number of external writes so far
    issued,         \* history: id -> number of update_note requests issued
    applied,        \* history: id -> issue number of the last local write applied
    retry,          \* history: id -> "none" | "failed" | "edited"
    prevCall,       \* history: id -> arguments of the previous persistNote call
    overtaken,      \* history: id -> the external version that overtook the pending edit
    folders,        \* state.data.folders / state.foldersById: the cached folder ids
    tags,           \* state.data.tags / state.tagsById: the cached tag ids
    activeFolderId, \* state.activeFolderId
    activeNoteId,   \* state.activeNoteId
    storeFolders,   \* the canonical store's folders
    storeTags,      \* the canonical store's tags
    loaded,         \* the bulk load under way: the await it is at and what it has fetched
    dataNotes,      \* state.data.notes as a list: id, folderId, pinned, sortOrder
    dataFolders,    \* state.data.folders: id -> in the list or not, parentId
    dataTags,       \* state.data.tags
    notesById,      \* keys of state.notesById
    foldersById,    \* keys of state.foldersById
    notesByFolderId,    \* state.notesByFolderId: folder id -> list of note ids, if any
    notesCountByFolder, \* state.notesCountByFolder: folder id -> count, if any
    tagsById,       \* keys of state.tagsById
    candidates,     \* bridge.ts: the bridge candidates that exist on this machine
    resolved,       \* bridge.ts: what resolveBridgeCommand returned
    call,           \* bridge.ts: the invocation of callBridge under way or just ended
    ui,             \* search-notes.tsx: the state of the extension's commands
    ev              \* history: the last step

vars == <<now, notes, saveTimeouts, lastSaved, inflight, store, token, watcher, forced,
          fetched, lastToken, nedits, nexternal, issued, applied, retry, prevCall,
          overtaken, folders, tags, activeFolderId, activeNoteId, storeFolders, storeTags,
          loaded, dataNotes, dataFolders, dataTags, notesById, foldersById,
          notesByFolderId, notesCountByFolder, tagsById, candidates, resolved, call, ui, ev>>

\* The folders, the tags, the selection and the bulk load.
entityVars == <<folders, tags, activeFolderId, activeNoteId, storeFolders, storeTags, loaded>>

\* The entity lists with their index maps.
structVars == <<dataNotes, dataFolders, dataTags, notesById, foldersById, notesByFolderId,
                notesCountByFolder, tagsById>>

\* The bridge resolution of the extension.
bridgeVars == <<candidates, resolved, call, ui>>

extraVars == <<structVars, bridgeVars>>

-----------------------------------------------------------------------------
(* Values *)

Fields(o) == [title |-> o.title, body |-> o.body, updatedAt |-> o.updatedAt]

\* seen: the number of external writes of the note that the cached object includes.
Absent == [live |-> FALSE, title |-> "", body |-> Null, updatedAt |-> 0, folderId |-> "",
           seen |-> 0]

NoTimer == [pending |-> FALSE, setAt |-> 0, detached |-> FALSE, obj |-> Absent]

NoSaved == [has |-> FALSE, title |-> "", body |-> Null, updatedAt |-> 0]

\* The external writer's last write to a row: its title, its timestamp and the
\* store's token once it was committed.
NoW == [title |-> "", updatedAt |-> 0, token |-> 0]

\* ext: the number of external writes committed to the row; w: the last of them.
NoRow == [live |-> FALSE, title |-> "", body |-> "", updatedAt |-> 0, folderId |-> "",
          ext |-> 0, w |-> NoW]

\* overtaken[id]: the external version that overtook a pending local edit, and the
\* title, body and update timestamp of that edit.
NotOvertaken == [live |-> FALSE, title |-> "", body |-> "", updatedAt |-> 0,
                 folderId |-> "", ext |-> 0,
                 edit |-> Fields(Absent)]

\* A step that calls persistNote: whom it was called for, whose call issued no
\* request, and whose pending timer was cancelled without a call.
PersistStep(op, id, calls, skipped, dropped) ==
    [op |-> op, id |-> id, outcome |-> None, calls |-> calls, skipped |-> skipped,
     dropped |-> dropped]

Step(op, id, outcome) ==
    [op |-> op, id |-> id, outcome |-> outcome, calls |-> {}, skipped |-> {},
     dropped |-> {}]

\* The note object a pending timer's closure holds: the cached object, or the
\* object as it was when it left the cache (deleteNote, bulk reload).
TimerNote(id) ==
    IF saveTimeouts[id].detached THEN saveTimeouts[id].obj ELSE notes[id]

Pending == {n \in NoteIds : saveTimeouts[n].pending}

-----------------------------------------------------------------------------
(* persistNote, render.js:1411-1420 *)

\* Variant: the comparison reads the wrong fields of the record.
IsDuplicateSwapped(prev, note) ==
    /\ prev.has
    /\ prev.title = note.body
    /\ prev.body = note.title
    /\ prev.updatedAt = note.updatedAt

IsDuplicate(prev, note) ==
    /\ prev.has
    /\ prev.title = note.title
    /\ prev.body = note.body
    /\ prev.updatedAt = note.updatedAt

SavedRecord(note) ==
    [has |-> TRUE, title |-> note.title, body |-> note.body, updatedAt |-> note.updatedAt]

\* Variant: the request is stamped with the time of sending.
UpdateNoteMsgStamped(id, note) ==
    [cmd |-> "update_note", id |-> id, title |-> note.title, body |-> note.body,
     updatedAt |-> now, seq |-> issued[id] + 1,
     stale |-> overtaken[id].live /\ Fields(note) = overtaken[id].edit,
     seen |-> note.seen]

UpdateNoteMsg(id, note) ==
    [cmd |-> "update_note", id |-> id, title |-> note.title, body |-> note.body,
     updatedAt |-> note.updatedAt, seq |-> issued[id] + 1,
     stale |-> overtaken[id].live /\ Fields(note) = overtaken[id].edit,
     seen |-> note.seen]

\* Variant: no comparison with the last-persisted record.
WrittenAlways(objs) == DOMAIN objs

\* objs: the notes persistNote is called with in this step, by id.
Written(objs) == {n \in DOMAIN objs : ~IsDuplicate(lastSaved[n], objs[n])}

PersistNote(objs) ==
    /\ lastSaved' = [n \in NoteIds |->
                        IF n \in Written(objs) THEN SavedRecord(objs[n]) ELSE lastSaved[n]]
    /\ inflight' = inflight \cup {UpdateNoteMsg(n, objs[n]) : n \in Written(objs)}
    /\ issued' = [n \in NoteIds |-> IF n \in Written(objs) THEN issued[n] + 1 ELSE issued[n]]
    /\ prevCall' = [n \in NoteIds |->
                        IF n \in DOMAIN objs THEN SavedRecord(objs[n]) ELSE prevCall[n]]
    /\ retry' = [n \in NoteIds |-> IF n \in DOMAIN objs THEN "none" ELSE retry[n]]

-----------------------------------------------------------------------------
(* scheduleSave, render.js:1422-1430 *)

\* Variant: one timer shared by all notes (ISSUES_TO_FIX.md:15-18).
ScheduleSaveShared(timers, id) ==
    [n \in NoteIds |->
        IF n = id
        THEN [pending |-> TRUE, setAt |-> now, detached |-> FALSE, obj |-> Absent]
        ELSE NoTimer]

ScheduleSave(timers, id) ==
    [timers EXCEPT ![id] = [pending |-> TRUE, setAt |-> now, detached |-> FALSE,
                            obj |-> Absent]]

\* The note the timeout callback of id persists.
TimerObjs(id) == [n \in {id} |-> TimerNote(id)]

\* The timeout callback, render.js:1425-1429.
TimerFire(id) ==
    /\ saveTimeouts[id].pending
    /\ now > saveTimeouts[id].setAt
    /\ saveTimeouts' = [saveTimeouts EXCEPT ![id] = NoTimer]
    /\ PersistNote(TimerObjs(id))
    /\ ev' = PersistStep("timer", id, {id}, {id} \ Written(TimerObjs(id)), {})
    /\ UNCHANGED entityVars
    /\ UNCHANGED <<now, notes, store, token, watcher, forced, fetched, lastToken,
                   nedits, nexternal, applied, overtaken>>
    /\ UNCHANGED extraVars

-----------------------------------------------------------------------------
(* flushPendingSaves, render.js:1432-1442 *)

FlushTargets == {n \in Pending : notes[n].live}

FlushObjs == [n \in FlushTargets |-> notes[n]]

\* Variant: saveTimeouts.clear() is missing.
FlushedTimeoutsKept == saveTimeouts

FlushedTimeouts == [n \in NoteIds |-> NoTimer]

FlushPendingSaves(op) ==
    /\ saveTimeouts' = FlushedTimeouts
    /\ PersistNote(FlushObjs)
    /\ ev' = PersistStep(op, None, FlushTargets, FlushTargets \ Written(FlushObjs),
                         Pending \ FlushTargets)
    /\ UNCHANGED extraVars

\* Cmd/Ctrl+S (main.js:30-35), beforeunload (render.js:2127), window.flushPendingSaves.
Flush ==
    /\ FlushPendingSaves("flush")
    /\ UNCHANGED entityVars
    /\ UNCHANGED <<now, notes, store, token, watcher, forced, fetched, lastToken,
                   nedits, nexternal, applied, overtaken>>

-----------------------------------------------------------------------------
(* updateNoteTitle / updateNoteBody, render.js:1444-1461 *)

Edited(id) == [retry EXCEPT ![id] = IF @ = "failed" THEN "edited" ELSE @]

UpdateNoteTitle(id, value) ==
    /\ nedits < MaxEdits
    /\ notes[id].live
    /\ notes' = [notes EXCEPT ![id].title = value, ![id].updatedAt = now]
    /\ saveTimeouts' = ScheduleSave(saveTimeouts, id)
    /\ nedits' = nedits + 1
    /\ retry' = Edited(id)
    /\ overtaken' = [overtaken EXCEPT ![id] = NotOvertaken]
    /\ ev' = Step("edit", id, None)
    /\ UNCHANGED entityVars
    /\ UNCHANGED <<now, lastSaved, inflight, store, token, watcher, forced, fetched,
                   lastToken, nexternal, issued, applied, prevCall>>
    /\ UNCHANGED extraVars

UpdateNoteBody(id, value) ==
    /\ nedits < MaxEdits
    /\ notes[id].live
    /\ notes' = [notes EXCEPT ![id].body = value, ![id].updatedAt = now]
    /\ saveTimeouts' = ScheduleSave(saveTimeouts, id)
    /\ nedits' = nedits + 1
    /\ retry' = Edited(id)
    /\ overtaken' = [overtaken EXCEPT ![id] = NotOvertaken]
    /\ ev' = Step("edit", id, None)
    /\ UNCHANGED entityVars
    /\ UNCHANGED <<now, lastSaved, inflight, store, token, watcher, forced, fetched,
                   lastToken, nexternal, issued, applied, prevCall>>
    /\ UNCHANGED extraVars

-----------------------------------------------------------------------------
(* getSortedFolderNotes, render.js:573-593 *)

\* The order of state.data.folders (get_folders).
FolderOrder == [f \in FolderIds |-> IF f = "f1" THEN 1 ELSE 2]

\* The manual sort order of the notes (sortOrder, no note pinned).
NoteOrder == [n \in NoteIds |-> IF n = "n1" THEN 1 ELSE 2]

\* state.notesByFolderId.get(f): empty for a folder that has no index entry.
FolderNotes(ns, fs, f) ==
    IF f \in fs THEN {n \in NoteIds : ns[n].live /\ ns[n].folderId = f} ELSE {}

\* getSortedFolderNotes(f)[0].id, or null.
FirstNote(ns, fs, f) ==
    IF FolderNotes(ns, fs, f) = {} THEN None
    ELSE CHOOSE n \in FolderNotes(ns, fs, f) :
             \A k \in FolderNotes(ns, fs, f) : NoteOrder[n] <= NoteOrder[k]

-----------------------------------------------------------------------------
(* deleteNote, render.js:1475-1496 *)

\* A pending timer of the deleted note is left alone: its closure keeps the note.
DetachTimer(timers, id) ==
    IF timers[id].pending /\ ~timers[id].detached
    THEN [timers EXCEPT ![id].detached = TRUE, ![id].obj = notes[id]]
    ELSE timers

DeleteNoteMsg(id) ==
    [cmd |-> "delete_note", id |-> id, title |-> "", body |-> "", updatedAt |-> 0,
     seq |-> 0, stale |-> FALSE, seen |-> 0]

DeleteNote(id) ==
    /\ notes[id].live
    /\ notes' = [notes EXCEPT ![id] = Absent]
    /\ activeNoteId' = IF activeNoteId = id
                       THEN FirstNote(notes', folders, activeFolderId)
                       ELSE activeNoteId
    /\ saveTimeouts' = DetachTimer(saveTimeouts, id)
    /\ inflight' = inflight \cup {DeleteNoteMsg(id)}
    /\ ev' = Step("delete", id, None)
    /\ UNCHANGED <<folders, tags, activeFolderId, storeFolders, storeTags, loaded>>
    /\ UNCHANGED <<now, lastSaved, store, token, watcher, forced, fetched, lastToken,
                   nedits, nexternal, issued, applied, retry, prevCall, overtaken>>
    /\ UNCHANGED extraVars

-----------------------------------------------------------------------------
(* addFolder, render.js:1139-1164 *)

CreateFolderMsg(f) ==
    [cmd |-> "create_folder", id |-> f, title |-> "", body |-> "", updatedAt |-> 0,
     seq |-> 0, stale |-> FALSE, seen |-> 0]

\* generateId() gives an id that was never used.
AddFolder(f) ==
    /\ f \notin folders /\ f \notin storeFolders /\ CreateFolderMsg(f) \notin inflight
    /\ folders' = folders \cup {f}
    /\ activeFolderId' = f
    /\ activeNoteId' = None
    /\ inflight' = inflight \cup {CreateFolderMsg(f)}
    /\ ev' = Step("addFolder", f, None)
    /\ UNCHANGED <<tags, storeFolders, storeTags, loaded>>
    /\ UNCHANGED <<now, notes, saveTimeouts, lastSaved, store, token, watcher, forced,
                   fetched, lastToken, nedits, nexternal, issued, applied, retry, prevCall,
                   overtaken>>
    /\ UNCHANGED extraVars

-----------------------------------------------------------------------------
(* Selection: selectFolder, selectNote, the command palette, the arrow keys *)

\* getSortedFolderNotes(f): the notes of the folder in manual order.
SortedFolderNotes(ns, fs, f) ==
    CHOOSE s \in [1..Cardinality(FolderNotes(ns, fs, f)) -> FolderNotes(ns, fs, f)] :
        \A i, j \in DOMAIN s : i < j => NoteOrder[s[i]] < NoteOrder[s[j]]

\* folderNotes.findIndex(n => n.id === id), counted from 1; 0 for "not found".
FindIndex(s, id) ==
    IF \E i \in DOMAIN s : s[i] = id THEN CHOOSE i \in DOMAIN s : s[i] = id ELSE 0

\* selectFolder, render.js:1166-1178.
SelectFolder(f) ==
    /\ f \in folders
    /\ FlushPendingSaves("selectFolder")
    /\ activeFolderId' = f
    /\ activeNoteId' = FirstNote(notes, folders, f)
    /\ UNCHANGED <<folders, tags, storeFolders, storeTags, loaded>>
    /\ UNCHANGED <<now, notes, store, token, watcher, forced, fetched, lastToken,
                   nedits, nexternal, applied, overtaken>>

\* selectNote, render.js:1390-1406: a click on a card of the notes list.
SelectNote(id) ==
    /\ id \in FolderNotes(notes, folders, activeFolderId)
    /\ FlushPendingSaves("selectNote")
    /\ activeNoteId' = id
    /\ UNCHANGED <<folders, tags, activeFolderId, storeFolders, storeTags, loaded>>
    /\ UNCHANGED <<now, notes, store, token, watcher, forced, fetched, lastToken,
                   nedits, nexternal, applied, overtaken>>

\* selectCommandResult, render.js:392-402: a note picked in the command palette.
SelectCommandResult(id) ==
    /\ notes[id].live
    /\ activeFolderId' = notes[id].folderId
    /\ activeNoteId' = id
    /\ ev' = Step("palette", id, None)
    /\ UNCHANGED <<folders, tags, storeFolders, storeTags, loaded>>
    /\ UNCHANGED <<now, notes, saveTimeouts, lastSaved, inflight, store, token, watcher,
                   forced, fetched, lastToken, nedits, nexternal, issued, applied, retry,
                   prevCall, overtaken>>
    /\ UNCHANGED extraVars

\* The keydown handler, render.js:2230-2261: ArrowDown / ArrowUp in the notes list
\* of the active folder, wrapping around at both ends.
ArrowTarget(down) ==
    LET s == SortedFolderNotes(notes, folders, activeFolderId)
        cur == IF activeNoteId # None THEN FindIndex(s, activeNoteId) ELSE 0
    IN  IF down THEN (IF cur < Len(s) THEN s[cur + 1] ELSE s[1])
        ELSE (IF cur > 1 THEN s[cur - 1] ELSE s[Len(s)])

ArrowKey(down) ==
    /\ activeFolderId # None
    /\ FolderNotes(notes, folders, activeFolderId) # {}
    /\ activeNoteId' = ArrowTarget(down)
    /\ ev' = Step("arrow", ArrowTarget(down), None)
    /\ UNCHANGED <<folders, tags, activeFolderId, storeFolders, storeTags, loaded>>
    /\ UNCHANGED <<now, notes, saveTimeouts, lastSaved, inflight, store, token, watcher,
                   forced, fetched, lastToken, nedits, nexternal, issued, applied, retry,
                   prevCall, overtaken>>
    /\ UNCHANGED extraVars

\* The beforeunload listener, render.js:2127.
BeforeUnload ==
    /\ FlushPendingSaves("unload")
    /\ UNCHANGED entityVars
    /\ UNCHANGED <<now, notes, store, token, watcher, forced, fetched, lastToken,
                   nedits, nexternal, applied, overtaken>>

-----------------------------------------------------------------------------
(* renderEditorPanel's lazy body load, render.js:999-1004 *)

LoadBody(id) ==
    /\ notes[id].live
    /\ notes[id].body = Null
    /\ notes' = [notes EXCEPT ![id].body = IF store[id].live THEN store[id].body ELSE ""]
    /\ ev' = Step("body", id, None)
    /\ UNCHANGED entityVars
    /\ UNCHANGED <<now, saveTimeouts, lastSaved, inflight, store, token, watcher, forced,
                   fetched, lastToken, nedits, nexternal, issued, applied, retry, prevCall,
                   overtaken>>
    /\ UNCHANGED extraVars

-----------------------------------------------------------------------------
(* The canonical store (spec.md 4.4, 6, 7) *)

\* The store's answer to an update_note request.
UpdateOutcome(m) ==
    IF ~store[m.id].live THEN "VALIDATION"
    ELSE IF store[m.id].updatedAt > m.updatedAt THEN "CONFLICT"
    ELSE "ok"

StoreRow(m) ==
    [store[m.id] EXCEPT !.title = m.title, !.body = m.body, !.updatedAt = m.updatedAt]

Outcome(m, internal) ==
    IF internal THEN "INTERNAL"
    ELSE IF m.cmd = "update_note" THEN UpdateOutcome(m)
    ELSE "ok"

\* The store answers one request; the requests in flight are answered in any order.
\* persistNote and deleteNote do nothing with the answer.
StoreRespond(m, internal) ==
    /\ m \in inflight
    /\ internal => m.cmd = "update_note"
    /\ inflight' = inflight \ {m}
    /\ store' = IF Outcome(m, internal) # "ok" THEN store
                ELSE IF m.cmd = "update_note" THEN [store EXCEPT ![m.id] = StoreRow(m)]
                ELSE IF m.cmd = "delete_note" THEN [store EXCEPT ![m.id] = NoRow]
                ELSE store
    /\ storeFolders' = IF m.cmd = "create_folder" THEN storeFolders \cup {m.id}
                       ELSE storeFolders
    /\ token' = IF /\ Outcome(m, internal) = "ok"
                   /\ m.cmd = "create_folder" \/ store[m.id].live
                THEN token + 1 ELSE token
    /\ applied' = IF Outcome(m, internal) = "ok" /\ m.cmd = "update_note"
                  THEN [applied EXCEPT ![m.id] = m.seq] ELSE applied
    /\ retry' = IF m.cmd = "update_note" /\ Outcome(m, internal) \in {"INTERNAL", "VALIDATION"}
                THEN [retry EXCEPT ![m.id] = "failed"] ELSE retry
    /\ ev' = Step("resp", m.id, Outcome(m, internal))
    /\ UNCHANGED <<folders, tags, activeFolderId, activeNoteId, storeTags, loaded>>
    /\ UNCHANGED <<now, notes, saveTimeouts, lastSaved, watcher, forced, fetched,
                   lastToken, nedits, nexternal, issued, prevCall, overtaken>>
    /\ UNCHANGED extraVars

Overtaking(row, edit) ==
    [live |-> TRUE, title |-> row.title, body |-> row.body, updatedAt |-> row.updatedAt,
     folderId |-> row.folderId, ext |-> row.ext,
     edit |-> edit]

\* The external writer (the bridge) commits an update of a note.
ExternalWrite(id, value) ==
    /\ nexternal < MaxExternal
    /\ store[id].live
    /\ store' = [store EXCEPT ![id].title = value, ![id].updatedAt = now,
                              ![id].ext = @ + 1,
                              ![id].w = [title |-> value, updatedAt |-> now,
                                         token |-> token + 1]]
    /\ token' = token + 1
    /\ nexternal' = nexternal + 1
    /\ overtaken' = IF overtaken[id].live
                    THEN [overtaken EXCEPT ![id] = Overtaking(store'[id], @.edit)]
                    ELSE IF saveTimeouts[id].pending /\ now > TimerNote(id).updatedAt
                    THEN [overtaken EXCEPT ![id] =
                              Overtaking(store'[id], Fields(TimerNote(id)))]
                    ELSE overtaken
    /\ ev' = Step("external", id, None)
    /\ UNCHANGED entityVars
    /\ UNCHANGED <<now, notes, saveTimeouts, lastSaved, inflight, watcher, forced, fetched,
                   lastToken, nedits, issued, applied, retry, prevCall>>
    /\ UNCHANGED extraVars

\* The folder the external writer creates notes in (ensure_inbox).
Inbox == "f1"

\* The external writer creates a note in the inbox.
ExternalCreate(id, value) ==
    /\ nexternal < MaxExternal
    /\ ~store[id].live
    /\ \A m \in inflight : m.id # id
    /\ store' = [store EXCEPT ![id] = [live |-> TRUE, title |-> value, body |-> "x",
                                       updatedAt |-> now, folderId |-> Inbox, ext |-> 1,
                                       w |-> [title |-> value, updatedAt |-> now,
                                              token |-> token + 1]]]
    /\ storeFolders' = storeFolders \cup {Inbox}
    /\ token' = token + 1
    /\ nexternal' = nexternal + 1
    /\ ev' = Step("extcreate", id, None)
    /\ UNCHANGED <<folders, tags, activeFolderId, activeNoteId, storeTags, loaded>>
    /\ UNCHANGED <<now, notes, saveTimeouts, lastSaved, inflight, watcher, forced, fetched,
                   lastToken, nedits, issued, applied, retry, prevCall, overtaken>>
    /\ UNCHANGED extraVars

\* The external writer deletes a note.
ExternalDelete(id) ==
    /\ nexternal < MaxExternal
    /\ store[id].live
    /\ store' = [store EXCEPT ![id] = NoRow]
    /\ token' = token + 1
    /\ nexternal' = nexternal + 1
    /\ overtaken' = [overtaken EXCEPT ![id] = NotOvertaken]
    /\ ev' = Step("extdelete", id, None)
    /\ UNCHANGED entityVars
    /\ UNCHANGED <<now, notes, saveTimeouts, lastSaved, inflight, watcher, forced, fetched,
                   lastToken, nedits, issued, applied, retry, prevCall>>
    /\ UNCHANGED extraVars

-----------------------------------------------------------------------------
(* The sync watcher (spec.md 4.3) and the bulk load, state.js:65-94 *)

NotLoading == [step |-> "idle", folders |-> {}, notes |-> [n \in NoteIds |-> NoRow]]

TriggerQueued(kind) ==
    /\ watcher # "Idle"
    /\ forced' = (forced \/ kind = "force")
    /\ ev' = Step("ignored", None, None)
    /\ UNCHANGED entityVars
    /\ UNCHANGED <<now, notes, saveTimeouts, lastSaved, inflight, store, token, watcher,
                   fetched, lastToken, nedits, nexternal, issued, applied, retry,
                   prevCall, overtaken>>
    /\ UNCHANGED extraVars

\* A trigger that arrives while a cycle is in flight is ignored.
TriggerIgnored(kind) ==
    /\ watcher # "Idle"
    /\ ev' = Step("ignored", None, None)
    /\ UNCHANGED entityVars
    /\ UNCHANGED <<now, notes, saveTimeouts, lastSaved, inflight, store, token, watcher,
                   forced, fetched, lastToken, nedits, nexternal, issued, applied, retry,
                   prevCall, overtaken>>
    /\ UNCHANGED extraVars

\* Checking -> Idle: the token fetch fails.
TokenFetchFailed ==
    /\ watcher = "Checking"
    /\ watcher' = "Idle"
    /\ forced' = FALSE
    /\ ev' = Step("fetchfailed", None, None)
    /\ UNCHANGED entityVars
    /\ UNCHANGED <<now, notes, saveTimeouts, lastSaved, inflight, store, token, fetched,
                   lastToken, nedits, nexternal, issued, applied, retry, prevCall, overtaken>>
    /\ UNCHANGED extraVars

\* Idle -> Checking: flushAll, then the token fetch is issued.
WatcherTrigger(kind) ==
    /\ watcher = "Idle"
    /\ watcher' = "Checking"
    /\ forced' = (kind = "force")
    /\ FlushPendingSaves("check")
    /\ UNCHANGED entityVars
    /\ UNCHANGED <<now, notes, store, token, fetched, lastToken, nedits, nexternal, applied,
                   overtaken>>

TokenUnchangedUnforced ==
    /\ watcher = "Checking"
    /\ token = lastToken
    /\ watcher' = "Idle"
    /\ forced' = FALSE
    /\ ev' = Step("same", None, None)
    /\ UNCHANGED entityVars
    /\ UNCHANGED <<now, notes, saveTimeouts, lastSaved, inflight, store, token, fetched,
                   lastToken, nedits, nexternal, issued, applied, retry, prevCall, overtaken>>
    /\ UNCHANGED extraVars

TokenUnchangedRefreshing ==
    /\ watcher = "Checking"
    /\ token = lastToken /\ ~forced
    /\ watcher' = "Idle"
    /\ forced' = FALSE
    /\ notes' = [n \in NoteIds |->
                 [notes[n] EXCEPT !.title = store[n].title, !.updatedAt = store[n].updatedAt]]
    /\ ev' = Step("same", None, None)
    /\ UNCHANGED entityVars
    /\ UNCHANGED <<now, saveTimeouts, lastSaved, inflight, store, token, fetched,
                   lastToken, nedits, nexternal, issued, applied, retry, prevCall, overtaken>>
    /\ UNCHANGED extraVars

\* Checking -> Idle.
TokenUnchanged ==
    /\ watcher = "Checking"
    /\ token = lastToken /\ ~forced
    /\ watcher' = "Idle"
    /\ forced' = FALSE
    /\ ev' = Step("same", None, None)
    /\ UNCHANGED entityVars
    /\ UNCHANGED <<now, notes, saveTimeouts, lastSaved, inflight, store, token, fetched,
                   lastToken, nedits, nexternal, issued, applied, retry, prevCall, overtaken>>
    /\ UNCHANGED extraVars

\* Checking -> Reconciling: flushAll, then the reload is issued.
TokenChanged ==
    /\ watcher = "Checking"
    /\ token # lastToken \/ forced
    /\ watcher' = "Reconciling"
    /\ fetched' = token
    /\ FlushPendingSaves("reconcile")
    /\ loaded' = [NotLoading EXCEPT !.step = "folders"]
    /\ UNCHANGED <<folders, tags, activeFolderId, activeNoteId, storeFolders, storeTags>>
    /\ UNCHANGED <<now, notes, store, token, forced, lastToken, nedits, nexternal, applied,
                   overtaken>>

FetchFoldersCached ==
    /\ watcher = "Reconciling" /\ loaded.step = "folders"
    /\ loaded' = [loaded EXCEPT !.step = "notes", !.folders = folders]
    /\ ev' = Step("folders", None, None)
    /\ UNCHANGED <<folders, tags, activeFolderId, activeNoteId, storeFolders, storeTags>>
    /\ UNCHANGED <<now, notes, saveTimeouts, lastSaved, inflight, store, token, watcher,
                   forced, fetched, lastToken, nedits, nexternal, issued, applied, retry,
                   prevCall, overtaken>>
    /\ UNCHANGED extraVars

\* DataLayer.load, state.js:67: get_folders is answered.
FetchFolders ==
    /\ watcher = "Reconciling" /\ loaded.step = "folders"
    /\ loaded' = [loaded EXCEPT !.step = "notes", !.folders = storeFolders]
    /\ ev' = Step("folders", None, None)
    /\ UNCHANGED <<folders, tags, activeFolderId, activeNoteId, storeFolders, storeTags>>
    /\ UNCHANGED <<now, notes, saveTimeouts, lastSaved, inflight, store, token, watcher,
                   forced, fetched, lastToken, nedits, nexternal, issued, applied, retry,
                   prevCall, overtaken>>
    /\ UNCHANGED extraVars

\* DataLayer.load, state.js:68: get_notes_metadata is answered.
FetchNotes ==
    /\ watcher = "Reconciling" /\ loaded.step = "notes"
    /\ loaded' = [loaded EXCEPT !.step = "tags", !.notes = store]
    /\ ev' = Step("notes", None, None)
    /\ UNCHANGED <<folders, tags, activeFolderId, activeNoteId, storeFolders, storeTags>>
    /\ UNCHANGED <<now, notes, saveTimeouts, lastSaved, inflight, store, token, watcher,
                   forced, fetched, lastToken, nedits, nexternal, issued, applied, retry,
                   prevCall, overtaken>>
    /\ UNCHANGED extraVars

\* DataLayer.load: every cached note is replaced by a metadata-only record.
LoadedNote(row) ==
    IF row.live
    THEN [live |-> TRUE, title |-> row.title, body |-> Null, updatedAt |-> row.updatedAt,
          folderId |-> row.folderId, seen |-> row.ext]
    ELSE Absent

DetachAll(timers) ==
    [n \in NoteIds |->
        IF timers[n].pending /\ ~timers[n].detached
        THEN [timers[n] EXCEPT !.detached = TRUE, !.obj = notes[n]]
        ELSE timers[n]]

\* Reconciling -> Idle.
\* Selection re-validation after a reload (spec.md 4.3): fs and ns are the reloaded
\* folders and notes.
ValidFolder(fs) ==
    IF activeFolderId \in fs THEN activeFolderId
    ELSE IF fs = {} THEN None
    ELSE CHOOSE f \in fs : \A g \in fs : FolderOrder[f] <= FolderOrder[g]

ValidNote(ns) ==
    IF activeNoteId \in NoteIds /\ ns[activeNoteId].live THEN activeNoteId ELSE None

RevalidatedFolder(fs, ns) ==
    IF ValidNote(ns) # None THEN ns[ValidNote(ns)].folderId ELSE ValidFolder(fs)

RevalidatedNoteKept(fs, ns) ==
    IF ValidNote(ns) # None THEN ValidNote(ns)
    ELSE None

RevalidatedNote(fs, ns) ==
    IF ValidNote(ns) # None THEN ValidNote(ns)
    ELSE IF RevalidatedFolder(fs, ns) # None THEN FirstNote(ns, fs, RevalidatedFolder(fs, ns))
    ELSE None

ReconciledToCurrent(fs, ns, ts) ==
    /\ folders' = fs
    /\ notes' = ns
    /\ tags' = ts
    /\ saveTimeouts' = DetachAll(saveTimeouts)
    /\ activeFolderId' = RevalidatedFolder(fs, ns)
    /\ activeNoteId' = RevalidatedNote(fs, ns)
    /\ lastToken' = token
    /\ watcher' = "Idle"
    /\ forced' = FALSE
    /\ fetched' = 0
    /\ loaded' = NotLoading
    /\ UNCHANGED <<storeFolders, storeTags>>
    /\ UNCHANGED <<now, lastSaved, inflight, store, token, nedits, nexternal,
                   issued, applied, retry, prevCall, overtaken>>

\* The end of a cycle: the cache is now fs, ns, ts.
Reconciled(fs, ns, ts) ==
    /\ folders' = fs
    /\ notes' = ns
    /\ tags' = ts
    /\ saveTimeouts' = DetachAll(saveTimeouts)
    /\ activeFolderId' = RevalidatedFolder(fs, ns)
    /\ activeNoteId' = RevalidatedNote(fs, ns)
    /\ lastToken' = fetched
    /\ watcher' = "Idle"
    /\ forced' = FALSE
    /\ fetched' = 0
    /\ loaded' = NotLoading
    /\ UNCHANGED <<storeFolders, storeTags>>
    /\ UNCHANGED <<now, lastSaved, inflight, store, token, nedits, nexternal,
                   issued, applied, retry, prevCall, overtaken>>

\* Reconciling -> Idle. DataLayer.load, state.js:69-82: get_tags is answered, the
\* cache is replaced by what the three calls returned, rebuildIndexes.
ReloadDone ==
    /\ watcher = "Reconciling" /\ loaded.step = "tags"
    /\ Reconciled(loaded.folders, [n \in NoteIds |-> LoadedNote(loaded.notes[n])], storeTags)
    /\ ev' = Step("reload", None, None)
    /\ UNCHANGED extraVars

LoadFailedAbandoned ==
    /\ watcher = "Reconciling" /\ loaded.step # "idle"
    /\ folders' = {}
    /\ notes' = [n \in NoteIds |-> Absent]
    /\ tags' = {}
    /\ saveTimeouts' = DetachAll(saveTimeouts)
    /\ activeFolderId' = None
    /\ activeNoteId' = None
    /\ loaded' = NotLoading
    /\ ev' = Step("loadfailed", None, None)
    /\ UNCHANGED <<storeFolders, storeTags, watcher, forced, fetched, lastToken>>
    /\ UNCHANGED <<now, lastSaved, inflight, store, token, nedits, nexternal,
                   issued, applied, retry, prevCall, overtaken>>
    /\ UNCHANGED extraVars

\* Reconciling -> Idle. DataLayer.load, state.js:83-93: one of the three calls
\* fails, the cache is emptied; load() returns normally.
LoadFailed ==
    /\ watcher = "Reconciling" /\ loaded.step # "idle"
    /\ Reconciled({}, [n \in NoteIds |-> Absent], {})
    /\ ev' = Step("loadfailed", None, None)
    /\ UNCHANGED extraVars

-----------------------------------------------------------------------------
(* The clock *)

Tick ==
    /\ now < MaxTime
    /\ now' = now + 1
    /\ ev' = Step("tick", None, None)
    /\ UNCHANGED entityVars
    /\ UNCHANGED <<notes, saveTimeouts, lastSaved, inflight, store, token, watcher,
                   forced, fetched, lastToken, nedits, nexternal, issued, applied, retry,
                   prevCall, overtaken>>
    /\ UNCHANGED extraVars

-----------------------------------------------------------------------------
(* The entity lists and their index maps: state.js:20-62, render.js *)

\* The notes and folders of the behaviours about the lists and the indexes.
ListNotes == {"m1", "m2", "m3"}
TreeFolders == {"g1", "g2", "g3"}

\* state.notesByFolderId.get(f) and state.notesCountByFolder.get(f) of a key the
\* map does not hold.
NoList == [has |-> FALSE, list |-> <<>>]
NoCount == [has |-> FALSE, n |-> 0]

\* Cap on the sort order an addNote may shift a note to.
MaxOrder == 3

NoFolder == [live |-> FALSE, parentId |-> None]

Ids(s) == {s[i].id : i \in DOMAIN s}

\* notes.filter(n => n.id !== id)
Without(s, id) == SelectSeq(s, LAMBDA n : n.id # id)

\* The note object with this id.
NoteOf(s, id) == s[CHOOSE i \in DOMAIN s : s[i].id = id]

\* rebuildIndexes, state.js:34-62.
RebuiltNotesById(ns) == Ids(ns)

RebuiltFoldersById(fs) == {f \in TreeFolders : fs[f].live}

RebuiltNotesByFolderId(ns, fs) ==
    [f \in TreeFolders |->
        IF fs[f].live
        THEN [has |-> TRUE,
              list |-> [i \in DOMAIN SelectSeq(ns, LAMBDA n : n.folderId = f) |->
                           SelectSeq(ns, LAMBDA n : n.folderId = f)[i].id]]
        ELSE NoList]

RebuiltNotesCountByFolder(ns, fs) ==
    [f \in TreeFolders |->
        IF fs[f].live \/ \E i \in DOMAIN ns : ns[i].folderId = f
        THEN [has |-> TRUE, n |-> Len(SelectSeq(ns, LAMBDA n : n.folderId = f))]
        ELSE NoCount]

RebuiltTagsById(ts) == ts

RebuildIndexes(ns, fs, ts) ==
    /\ notesById' = RebuiltNotesById(ns)
    /\ foldersById' = RebuiltFoldersById(fs)
    /\ notesByFolderId' = RebuiltNotesByFolderId(ns, fs)
    /\ notesCountByFolder' = RebuiltNotesCountByFolder(ns, fs)
    /\ tagsById' = RebuiltTagsById(ts)

\* getSortedFolderNotes in manual mode, render.js:573-593: Array.prototype.sort is
\* stable; pinned notes first, then by sortOrder.
SortsBefore(a, b) ==
    \/ a.pinned /\ ~b.pinned
    \/ a.pinned = b.pinned /\ a.sortOrder < b.sortOrder

RECURSIVE StableSort(_)
StableSort(s) ==
    IF s = <<>> THEN <<>>
    ELSE LET t == StableSort(SubSeq(s, 1, Len(s) - 1))
             x == s[Len(s)]
             k == Cardinality({i \in DOMAIN t : ~SortsBefore(x, t[i])})
         IN  SubSeq(t, 1, k) \o <<x>> \o SubSeq(t, k + 1, Len(t))

\* state.notesByFolderId.get(f) || [], as note objects.
FolderList(f) ==
    IF f \notin TreeFolders \/ ~notesByFolderId[f].has THEN <<>>
    ELSE [i \in DOMAIN notesByFolderId[f].list |->
             NoteOf(dataNotes, notesByFolderId[f].list[i])]

GetSortedFolderNotes(f) == StableSort(FolderList(f))

\* orderedNotes.forEach((n, i) => { n.sortOrder = i; }), render.js:1546-1552.
Renumbered(ns, ordered) ==
    [i \in DOMAIN ns |->
        IF \E k \in DOMAIN ordered : ordered[k].id = ns[i].id
        THEN [ns[i] EXCEPT !.sortOrder =
                 (CHOOSE k \in DOMAIN ordered : ordered[k].id = ns[i].id) - 1]
        ELSE ns[i]]

\* A step of a handler of the lists: the store commands it invoked on the way.
Invoked(op, id, target, cmds) == [Step(op, id, target) EXCEPT !.calls = cmds]

\* The variables of the coalescer, the store and the watcher.
restVars == <<now, notes, saveTimeouts, lastSaved, store, token, watcher, forced, fetched,
              lastToken, nedits, nexternal, issued, applied, retry, prevCall, overtaken,
              folders, tags, storeFolders, storeTags, loaded>>

\* applyManualReorder, render.js:1546-1552.
ApplyManualReorder(ordered, op, id, target) ==
    /\ dataNotes' = Renumbered(dataNotes, ordered)
    /\ ev' = Invoked(op, id, target, {"reorder_notes"})
    /\ UNCHANGED <<dataFolders, dataTags, notesById, foldersById, notesByFolderId,
                   notesCountByFolder, tagsById, activeFolderId, activeNoteId, inflight>>
    /\ UNCHANGED <<restVars, bridgeVars>>

\* The group of the dragged note without it, in display order.
DropGroup(dragId) ==
    SelectSeq(GetSortedFolderNotes(NoteOf(dataNotes, dragId).folderId),
              LAMBDA n : n.pinned = NoteOf(dataNotes, dragId).pinned /\ n.id # dragId)

\* filtered.push(draggedNote) in place of the splice: the target index is ignored.
SplicedAtEnd(s, idx, x) == s \o <<x>>

\* filtered.splice(targetIdx, 0, draggedNote)
Spliced(s, idx, x) == SubSeq(s, 1, idx) \o <<x>> \o SubSeq(s, idx + 1, Len(s))

\* reorderByTarget, render.js:1554-1570; idx counts the notes before the slot.
ReorderByTarget(dragId, targetId, below) ==
    /\ dragId # targetId
    /\ dragId \in notesById /\ targetId \in notesById
    /\ NoteOf(dataNotes, dragId).pinned = NoteOf(dataNotes, targetId).pinned
    /\ targetId \in Ids(DropGroup(dragId))
    /\ LET filtered == DropGroup(dragId)
           targetIdx == (CHOOSE i \in DOMAIN filtered : filtered[i].id = targetId) - 1
           idx == IF below THEN targetIdx + 1 ELSE targetIdx
       IN  ApplyManualReorder(Spliced(filtered, idx, NoteOf(dataNotes, dragId)),
                              IF below THEN "dropbelow" ELSE "dropabove", dragId, targetId)

\* onNotesListDrop, render.js:1591-1604: a drop below the last card.
OnNotesListDrop(dragId) ==
    /\ dragId \in notesById
    /\ ApplyManualReorder(Append(DropGroup(dragId), NoteOf(dataNotes, dragId)),
                          "dropend", dragId, None)

\* n => n.folderId === f && !n.pinned: the notes addNote shifts down by one.
Shifted(ns, f) ==
    [i \in DOMAIN ns |->
        IF ns[i].folderId = f /\ ~ns[i].pinned
        THEN [ns[i] EXCEPT !.sortOrder = @ + 1] ELSE ns[i]]

\* The index updates of a note creation, render.js:1372-1376.
IndexNote(id, f) ==
    /\ notesById' = notesById \cup {id}
    /\ notesByFolderId' = IF ~notesByFolderId[f].has THEN notesByFolderId
                          ELSE [notesByFolderId EXCEPT ![f].list = Append(@, id)]
    /\ notesCountByFolder' =
          [notesCountByFolder EXCEPT ![f] = [has |-> TRUE, n |-> @.n + 1]]

\* addNote, render.js:1357-1388. generateId() gives an id that is not in use.
AddNote(id) ==
    /\ activeFolderId \in TreeFolders
    /\ id \notin Ids(dataNotes) /\ id \notin notesById
    /\ \A i \in DOMAIN dataNotes :
          (dataNotes[i].folderId = activeFolderId /\ ~dataNotes[i].pinned) =>
              dataNotes[i].sortOrder < MaxOrder
    /\ dataNotes' = Append(Shifted(dataNotes, activeFolderId),
                           [id |-> id, folderId |-> activeFolderId, pinned |-> FALSE,
                            sortOrder |-> 0])
    /\ IndexNote(id, activeFolderId)
    /\ activeNoteId' = id
    /\ ev' = Invoked("addNote", id, None, {"create_note", "reorder_notes"})
    /\ UNCHANGED <<dataFolders, dataTags, foldersById, tagsById, activeFolderId, inflight>>
    /\ UNCHANGED <<restVars, bridgeVars>>

\* togglePinNote, render.js:1634-1656: the note goes to the top of its new group.
Repinned(ns, id) ==
    LET note == NoteOf(ns, id)
        group == StableSort(SelectSeq(Without(ns, id),
                     LAMBDA n : n.folderId = note.folderId /\ n.pinned = ~note.pinned))
    IN  [i \in DOMAIN ns |->
            IF ns[i].id = id THEN [ns[i] EXCEPT !.pinned = ~@, !.sortOrder = 0]
            ELSE IF \E k \in DOMAIN group : group[k].id = ns[i].id
            THEN [ns[i] EXCEPT !.sortOrder =
                     CHOOSE k \in DOMAIN group : group[k].id = ns[i].id]
            ELSE ns[i]]

TogglePinNote(id) ==
    /\ id \in notesById
    /\ dataNotes' = Repinned(dataNotes, id)
    /\ ev' = Invoked("togglePin", id, None, {"toggle_note_pinned", "reorder_notes"})
    /\ UNCHANGED <<dataFolders, dataTags, notesById, foldersById, notesByFolderId,
                   notesCountByFolder, tagsById, activeFolderId, activeNoteId, inflight>>
    /\ UNCHANGED <<restVars, bridgeVars>>

\* list.splice(list.indexOf(note), 1)
Removed(list, id) == SelectSeq(list, LAMBDA x : x # id)

\* deleteNote, render.js:1475-1496, on the lists and the indexes.
DeleteNoteEntry(id) ==
    /\ id \in Ids(dataNotes) \/ id \in notesById
    /\ dataNotes' = Without(dataNotes, id)
    /\ IF id \in notesById
       THEN LET f == NoteOf(dataNotes, id).folderId
            IN  /\ notesById' = notesById \ {id}
                /\ notesByFolderId' =
                      IF ~notesByFolderId[f].has THEN notesByFolderId
                      ELSE [notesByFolderId EXCEPT ![f].list = Removed(@, id)]
                /\ notesCountByFolder' =
                      IF notesCountByFolder[f].n > 0
                      THEN [notesCountByFolder EXCEPT ![f].n = @ - 1]
                      ELSE notesCountByFolder
       ELSE UNCHANGED <<notesById, notesByFolderId, notesCountByFolder>>
    /\ activeNoteId' =
          IF activeNoteId # id THEN activeNoteId
          ELSE LET list == IF activeFolderId \notin TreeFolders
                                \/ ~notesByFolderId'[activeFolderId].has
                           THEN <<>>
                           ELSE [i \in DOMAIN notesByFolderId'[activeFolderId].list |->
                                    NoteOf(dataNotes,
                                           notesByFolderId'[activeFolderId].list[i])]
               IN  IF list = <<>> THEN None ELSE StableSort(list)[1].id
    /\ ev' = Invoked("deleteNote", id, None, {"delete_note"})
    /\ UNCHANGED <<dataFolders, dataTags, foldersById, tagsById, activeFolderId, inflight>>
    /\ UNCHANGED <<restVars, bridgeVars>>

\* A backup file: folders with their parents, and notes.
Backup ==
    [folders |-> [f \in {"g1"} |-> None],
     notes |-> <<[id |-> "m3", folderId |-> "g1", pinned |-> FALSE, sortOrder |-> 0]>>]

ImportMsg == [cmd |-> "import_data", id |-> None]

\* importBackup, render.js:1786-1821: the file is read and checked, import_data is
\* invoked and awaited.
ImportBackup ==
    /\ ImportMsg \notin inflight
    /\ inflight' = inflight \cup {ImportMsg}
    /\ ev' = Invoked("import", None, None, {"import_data"})
    /\ UNCHANGED <<structVars, activeFolderId, activeNoteId>>
    /\ UNCHANGED <<restVars, bridgeVars>>

\* The folders and notes of the file that the cache does not hold yet.
MergedFolders(fs, b) ==
    [f \in TreeFolders |->
        IF ~fs[f].live /\ f \in DOMAIN b.folders
        THEN [live |-> TRUE, parentId |-> b.folders[f]] ELSE fs[f]]

MergedNotes(ns, b) == ns \o SelectSeq(b.notes, LAMBDA n : n.id \notin Ids(ns))

\* importBackup, render.js:1823-1862: import_data has succeeded.
ImportBackupDone ==
    /\ ImportMsg \in inflight
    /\ inflight' = inflight \ {ImportMsg}
    /\ dataFolders' = MergedFolders(dataFolders, Backup)
    /\ dataNotes' = MergedNotes(dataNotes, Backup)
    /\ RebuildIndexes(dataNotes', dataFolders', dataTags)
    /\ ev' = Step("imported", None, "ok")
    /\ UNCHANGED <<dataTags, activeFolderId, activeNoteId>>
    /\ UNCHANGED <<restVars, bridgeVars>>

\* importBackup, render.js:1863-1866: import_data has failed.
ImportBackupFailed ==
    /\ ImportMsg \in inflight
    /\ inflight' = inflight \ {ImportMsg}
    /\ ev' = Step("imported", None, "INTERNAL")
    /\ UNCHANGED <<structVars, activeFolderId, activeNoteId>>
    /\ UNCHANGED <<restVars, bridgeVars>>

-----------------------------------------------------------------------------
(* The folder tree and the tags: render.js:21-23, 1139-1164, 1209-1301, state.js:111-138 *)

TagNames == {"t1"}

\* Cap on the moves whose update_folder call has not been answered.
MaxMoves == 2

\* getChildFolders, render.js:21-23.
GetChildFolders(fs, parentId) ==
    {f \in TreeFolders : fs[f].live /\ fs[f].parentId = parentId}

\* getDescendantFolderIds, render.js:1268-1276; it is only called for a folder of
\* the rendered tree, below which the recursion ends.
RECURSIVE GetDescendantFolderIds(_, _)
GetDescendantFolderIds(fs, parentId) ==
    UNION {{c} \cup GetDescendantFolderIds(fs, c) : c \in GetChildFolders(fs, parentId)}

\* renderFolderTree(null, 0), render.js:40-42: the folders the sidebar can show,
\* those reached from the root folders.
Shown(fs) == GetDescendantFolderIds(fs, None)

\* Variant: the children of the folder only.
ChildrenAndSelf(fs, id) == GetChildFolders(fs, id) \cup {id}

\* deleteFolder, render.js:1211-1213: folderIdsSet.
FolderIdsToDelete(fs, id) == GetDescendantFolderIds(fs, id) \cup {id}

\* A command about a folder or a tag whose answer the handler awaits; old is the
\* parent the closure of moveFolderTo would restore, detached says that the folder
\* object of the closure has left state.data.folders.
TreeMsg(cmd, id, parentId, old) ==
    [cmd |-> cmd, id |-> id, parentId |-> parentId, old |-> old, detached |-> FALSE]

\* A step of a handler that removes entries: the ids that left the cache.
Removing(op, id, gone, cmds) == [Invoked(op, id, None, cmds) EXCEPT !.dropped = gone]

\* selectNote, render.js:1390-1406, on the lists: a click on a card of the notes
\* list, which shows the notes of the active folder; no save is pending.
SelectNoteEntry(id) ==
    /\ activeFolderId \in TreeFolders
    /\ \E i \in DOMAIN GetSortedFolderNotes(activeFolderId) :
          GetSortedFolderNotes(activeFolderId)[i].id = id
    /\ Pending = {}
    /\ activeNoteId' = id
    /\ ev' = Step("selectNote", id, None)
    /\ UNCHANGED <<structVars, activeFolderId, inflight>>
    /\ UNCHANGED <<restVars, bridgeVars>>

\* selectCommandResult, render.js:392-402, for a result of getCommandResults.
SelectCommandResultEntry(id) ==
    /\ id \in Ids(dataNotes)
    /\ activeFolderId' = NoteOf(dataNotes, id).folderId
    /\ activeNoteId' = id
    /\ ev' = Step("palette", id, None)
    /\ UNCHANGED <<structVars, inflight>>
    /\ UNCHANGED <<restVars, bridgeVars>>

\* selectNoteFromBacklink, render.js:566-570, as the button of a backlink calls
\* it, render.js:1013: with the id of the linking note and the folder of the note
\* the editor shows. getBacklinks looks for linking notes in all folders,
\* render.js:539-562.
SelectNoteFromBacklink(noteId) ==
    /\ activeNoteId \in notesById /\ activeNoteId \in Ids(dataNotes)
    /\ noteId \in Ids(dataNotes) /\ noteId # activeNoteId
    /\ activeFolderId' = NoteOf(dataNotes, activeNoteId).folderId
    /\ activeNoteId' = noteId
    /\ ev' = Step("backlink", noteId, None)
    /\ UNCHANGED <<structVars, inflight>>
    /\ UNCHANGED <<restVars, bridgeVars>>

\* navigateToWikiLink, render.js:434-491. A link to the title of a cached note
\* goes there; a link to no note creates the note in the active folder and goes
\* there once create_note and reorder_notes have been answered.
NavigateToWikiLink(id) ==
    /\ \A m \in inflight : m.id # id
    /\ IF id \in Ids(dataNotes)
       THEN /\ activeFolderId' = NoteOf(dataNotes, id).folderId
            /\ activeNoteId' = id
            /\ ev' = Step("wikiLink", id, None)
            /\ UNCHANGED <<structVars, inflight>>
       ELSE /\ activeFolderId \in TreeFolders
            /\ id \notin notesById
            /\ \A i \in DOMAIN dataNotes :
                  (dataNotes[i].folderId = activeFolderId /\ ~dataNotes[i].pinned) =>
                      dataNotes[i].sortOrder < MaxOrder
            /\ dataNotes' = Append(Shifted(dataNotes, activeFolderId),
                                   [id |-> id, folderId |-> activeFolderId,
                                    pinned |-> FALSE, sortOrder |-> 0])
            /\ IndexNote(id, activeFolderId)
            /\ inflight' = inflight \cup {TreeMsg("create_note", id, activeFolderId, None)}
            /\ ev' = Invoked("wikiLink", id, None, {"create_note"})
            /\ UNCHANGED <<dataFolders, dataTags, foldersById, tagsById, activeFolderId,
                           activeNoteId>>
    /\ UNCHANGED <<restVars, bridgeVars>>

\* navigateToWikiLink after its awaits, render.js:486-490: the note object of the
\* closure is the target.
WikiLinkCreated(m) ==
    /\ m \in inflight /\ m.cmd = "create_note"
    /\ inflight' = inflight \ {m}
    /\ activeFolderId' = m.parentId
    /\ activeNoteId' = m.id
    /\ ev' = Invoked("wikiLinkDone", m.id, None, {"reorder_notes"})
    /\ UNCHANGED structVars
    /\ UNCHANGED <<restVars, bridgeVars>>

\* The keydown handler, render.js:2230-2261, on the lists: ArrowDown / ArrowUp in
\* the notes of the active folder, wrapping around at both ends.
ArrowKeyEntry(down) ==
    /\ activeFolderId \in TreeFolders
    /\ GetSortedFolderNotes(activeFolderId) # <<>>
    /\ LET s == GetSortedFolderNotes(activeFolderId)
           cur == IF activeNoteId # None /\ \E i \in DOMAIN s : s[i].id = activeNoteId
                  THEN CHOOSE i \in DOMAIN s : s[i].id = activeNoteId ELSE 0
           new == IF down THEN (IF cur < Len(s) THEN cur + 1 ELSE 1)
                  ELSE (IF cur > 1 THEN cur - 1 ELSE Len(s))
       IN  /\ activeNoteId' = s[new].id
           /\ ev' = Step("arrow", s[new].id, None)
    /\ UNCHANGED <<structVars, activeFolderId, inflight>>
    /\ UNCHANGED <<restVars, bridgeVars>>

\* addFolder, render.js:1139-1164; generateId gives an id no entry or call uses.
AddFolderEntry(f, parentId) ==
    /\ ~dataFolders[f].live /\ f \notin foldersById
    /\ \A m \in inflight : m.id # f
    /\ \A i \in DOMAIN dataNotes : dataNotes[i].folderId # f
    /\ f \notin DOMAIN Backup.folders
    /\ parentId = None \/ parentId \in Shown(dataFolders)
    /\ dataFolders' = [dataFolders EXCEPT ![f] = [live |-> TRUE, parentId |-> parentId]]
    /\ foldersById' = foldersById \cup {f}
    /\ notesByFolderId' = [notesByFolderId EXCEPT ![f] = [has |-> TRUE, list |-> <<>>]]
    /\ notesCountByFolder' = [notesCountByFolder EXCEPT ![f] = [has |-> TRUE, n |-> 0]]
    /\ activeFolderId' = f
    /\ activeNoteId' = None
    /\ ev' = Invoked("addFolder", f, parentId, {"create_folder"})
    /\ UNCHANGED <<dataNotes, dataTags, notesById, tagsById, inflight>>
    /\ UNCHANGED <<restVars, bridgeVars>>

\* selectFolder, render.js:1166-1178, on the lists; no save is pending in the
\* behaviours of the tree, so flushPendingSaves makes no call.
SelectFolderEntry(f) ==
    /\ f \in Shown(dataFolders)
    /\ Pending = {}
    /\ activeFolderId' = f
    /\ activeNoteId' = IF GetSortedFolderNotes(f) = <<>> THEN None
                       ELSE GetSortedFolderNotes(f)[1].id
    /\ ev' = Step("selectFolder", f, None)
    /\ UNCHANGED <<structVars, inflight>>
    /\ UNCHANGED <<restVars, bridgeVars>>

\* deleteFolder, render.js:1209-1234.
DeleteFolder(id) ==
    /\ id \in Shown(dataFolders)
    /\ LET gone == FolderIdsToDelete(dataFolders, id)
       IN  /\ notesById' = notesById \ UNION {{notesByFolderId[f].list[i] :
                                  i \in 1..Len(notesByFolderId[f].list)} : f \in gone}
           /\ foldersById' = foldersById \ gone
           /\ notesByFolderId' = [f \in TreeFolders |->
                                    IF f \in gone THEN NoList ELSE notesByFolderId[f]]
           /\ notesCountByFolder' = [f \in TreeFolders |->
                                       IF f \in gone THEN NoCount ELSE notesCountByFolder[f]]
           /\ dataFolders' = [f \in TreeFolders |->
                                IF f \in gone THEN NoFolder ELSE dataFolders[f]]
           /\ dataNotes' = SelectSeq(dataNotes, LAMBDA n : n.folderId \notin gone)
           /\ IF activeFolderId \in gone
              THEN activeFolderId' = None /\ activeNoteId' = None
              ELSE UNCHANGED <<activeFolderId, activeNoteId>>
           /\ inflight' = {IF m.cmd = "update_folder" /\ m.id \in gone
                           THEN [m EXCEPT !.detached = TRUE] ELSE m : m \in inflight}
           /\ ev' = Removing("deleteFolder", id,
                             gone \cup (Ids(dataNotes) \ Ids(dataNotes')),
                             {"delete_folder"})
    /\ UNCHANGED <<dataTags, tagsById>>
    /\ UNCHANGED <<restVars, bridgeVars>>

\* showFolderContextMenu, render.js:1278-1301: the folders the Move submenu offers
\* for a folder, and the root.
MoveTargets(fs, folderId) ==
    {None} \cup ({f \in TreeFolders : fs[f].live} \ FolderIdsToDelete(fs, folderId))

\* moveFolderTo, render.js:1236-1258: the parent is set and update_folder is
\* invoked and awaited.
MoveFolderTo(folderId, newParentId) ==
    /\ folderId \in Shown(dataFolders)
    /\ newParentId \in MoveTargets(dataFolders, folderId)
    /\ folderId \in foldersById
    /\ dataFolders[folderId].parentId # newParentId
    /\ Cardinality({m \in inflight : m.cmd = "update_folder"}) < MaxMoves
    /\ \A m \in inflight : ~(m.cmd = "update_folder" /\ m.id = folderId
                            /\ m.parentId = newParentId
                            /\ m.old = dataFolders[folderId].parentId)
    /\ dataFolders' = [dataFolders EXCEPT ![folderId].parentId = newParentId]
    /\ inflight' = inflight \cup {TreeMsg("update_folder", folderId, newParentId,
                                          dataFolders[folderId].parentId)}
    /\ ev' = Invoked("moveFolder", folderId, newParentId, {"update_folder"})
    /\ UNCHANGED <<dataNotes, dataTags, notesById, foldersById, notesByFolderId,
                   notesCountByFolder, tagsById, activeFolderId, activeNoteId>>
    /\ UNCHANGED <<restVars, bridgeVars>>

\* moveFolderTo: update_folder has succeeded.
MoveFolderDone(m) ==
    /\ m.cmd = "update_folder"
    /\ inflight' = inflight \ {m}
    /\ ev' = Step("moved", m.id, "ok")
    /\ UNCHANGED <<structVars, activeFolderId, activeNoteId>>
    /\ UNCHANGED <<restVars, bridgeVars>>

\* moveFolderTo, render.js:1259-1265: update_folder has failed; the catch block gives
\* the folder object the parent it had when the move began.
MoveFolderFailed(m) ==
    /\ m.cmd = "update_folder"
    /\ inflight' = inflight \ {m}
    /\ dataFolders' = IF m.detached THEN dataFolders
                      ELSE [dataFolders EXCEPT ![m.id].parentId = m.old]
    /\ ev' = Step("moved", m.id, "INTERNAL")
    /\ UNCHANGED <<dataNotes, dataTags, notesById, foldersById, notesByFolderId,
                   notesCountByFolder, tagsById, activeFolderId, activeNoteId>>
    /\ UNCHANGED <<restVars, bridgeVars>>

\* DataLayer.createTag, state.js:111-113: create_tag is invoked and awaited.
CreateTag(t) ==
    /\ t \notin dataTags
    /\ \A m \in inflight : m.id # t
    /\ inflight' = inflight \cup {TreeMsg("create_tag", t, None, None)}
    /\ ev' = Invoked("createTag", t, None, {"create_tag"})
    /\ UNCHANGED <<structVars, activeFolderId, activeNoteId>>
    /\ UNCHANGED <<restVars, bridgeVars>>

\* DataLayer.createTag, state.js:114-118: create_tag has succeeded.
CreateTagDone(m) ==
    /\ m.cmd = "create_tag"
    /\ inflight' = inflight \ {m}
    /\ dataTags' = dataTags \cup {m.id}
    /\ tagsById' = tagsById \cup {m.id}
    /\ ev' = Step("tagCreated", m.id, "ok")
    /\ UNCHANGED <<dataNotes, dataFolders, notesById, foldersById, notesByFolderId,
                   notesCountByFolder, activeFolderId, activeNoteId>>
    /\ UNCHANGED <<restVars, bridgeVars>>

\* DataLayer.deleteTag, state.js:125-127: delete_tag is invoked and awaited.
DeleteTag(t) ==
    /\ t \in tagsById
    /\ \A m \in inflight : m.id # t
    /\ inflight' = inflight \cup {TreeMsg("delete_tag", t, None, None)}
    /\ ev' = Invoked("deleteTag", t, None, {"delete_tag"})
    /\ UNCHANGED <<structVars, activeFolderId, activeNoteId>>
    /\ UNCHANGED <<restVars, bridgeVars>>

\* DataLayer.deleteTag, state.js:128-133: delete_tag has succeeded.
DeleteTagDone(m) ==
    /\ m.cmd = "delete_tag"
    /\ inflight' = inflight \ {m}
    /\ dataTags' = dataTags \ {m.id}
    /\ tagsById' = tagsById \ {m.id}
    /\ ev' = Step("tagDeleted", m.id, "ok")
    /\ UNCHANGED <<dataNotes, dataFolders, notesById, foldersById, notesByFolderId,
                   notesCountByFolder, activeFolderId, activeNoteId>>
    /\ UNCHANGED <<restVars, bridgeVars>>

\* DataLayer.createTag and deleteTag, state.js:119-122, 134-137: the command has
\* failed and the error is thrown on.
TagCallFailed(m) ==
    /\ m.cmd \in {"create_tag", "delete_tag"}
    /\ inflight' = inflight \ {m}
    /\ ev' = Step("tagFailed", m.id, "INTERNAL")
    /\ UNCHANGED <<structVars, activeFolderId, activeNoteId>>
    /\ UNCHANGED <<restVars, bridgeVars>>

-----------------------------------------------------------------------------

(* The bridge resolution of the Raycast extension: raycast/src/lib/bridge.ts:136-346 *)

\* The directories the seeds' parent walks visit, in the order of the walk.
Roots == <<"r1", "r2">>

\* The places of the installed bridge binary and of the installed application,
\* in the order of appBridgeCandidates and appMainCandidates.
AppBridgePlaces == <<"sys", "home", "dot">>
AppMainPlaces == <<"sys", "home">>

File(kind, at) == [kind |-> kind, at |-> at]

NoFile == File("none", "none")

\* The files existsSync is asked about: the file ANOTE_BRIDGE_BIN names, the file
\* the preference bridgeBinaryPath names, the installed binaries, and for each
\* directory its src-tauri/Cargo.toml and its src-tauri/target/debug/anote_bridge.
BridgeFiles ==
    {File("env", "set"), File("pref", "set")}
        \cup {File("app_bridge", AppBridgePlaces[i]) : i \in DOMAIN AppBridgePlaces}
        \cup {File("app_main", AppMainPlaces[i]) : i \in DOMAIN AppMainPlaces}
        \cup {File("local", Roots[i]) : i \in DOMAIN Roots}
        \cup {File("manifest", Roots[i]) : i \in DOMAIN Roots}

\* candidates.find(candidate => existsSync(candidate)) ?? null
FindExisting(files, kind, places) ==
    IF \E i \in DOMAIN places : File(kind, places[i]) \in files
    THEN File(kind, places[CHOOSE i \in DOMAIN places :
                        /\ File(kind, places[i]) \in files
                        /\ \A j \in 1..(i - 1) : File(kind, places[j]) \notin files])
    ELSE NoFile

\* discoverRepoRoots, bridge.ts:136-158: the directories that hold a manifest.
DiscoverRepoRoots(files) == SelectSeq(Roots, LAMBDA r : File("manifest", r) \in files)

Resolution(source, cmd, args) ==
    [source |-> source, cmd |-> cmd, args |-> args, named |-> {}]

NoResolution == Resolution("none", NoFile, <<>>)

\* The thrown Error, bridge.ts:306-310, and the bridge_resolution_failed log entry,
\* bridge.ts:338-344: the candidates their text names are the two settings
\* ANOTE_BRIDGE_BIN and bridgeBinaryPath; no candidate path is in either.
ResolutionError ==
    [source |-> "error", cmd |-> NoFile, args |-> <<>>, named |-> {"env", "pref"}]

\* Variant: the development-tree binary is preferred to the installed application.
ResolveBridgeCommandLocalFirst(files) ==
    LET appBridgePath == FindExisting(files, "app_bridge", AppBridgePlaces)
        appMainPath == FindExisting(files, "app_main", AppMainPlaces)
        discoveredRoots == DiscoverRepoRoots(files)
        localBin == FindExisting(files, "local", discoveredRoots)
        cargoManifestPath == FindExisting(files, "manifest", discoveredRoots)
    IN  IF File("env", "set") \in files THEN Resolution("env", File("env", "set"), <<>>)
        ELSE IF File("pref", "set") \in files
        THEN Resolution("pref_bin", File("pref", "set"), <<>>)
        ELSE IF localBin # NoFile THEN Resolution("local", localBin, <<>>)
        ELSE IF appBridgePath # NoFile THEN Resolution("app_bridge", appBridgePath, <<>>)
        ELSE IF appMainPath # NoFile
        THEN Resolution("app_main_cli", appMainPath, <<"--bridge-cli">>)
        ELSE IF cargoManifestPath = NoFile THEN ResolutionError
        ELSE Resolution("cargo", File("cargo", "path"),
                        <<"run", "--quiet", "--manifest-path", cargoManifestPath.at,
                          "--bin", "anote_bridge">>)

\* resolveBridgeCommand, bridge.ts:174-323.
ResolveBridgeCommand(files) ==
    LET appBridgePath == FindExisting(files, "app_bridge", AppBridgePlaces)
        appMainPath == FindExisting(files, "app_main", AppMainPlaces)
        discoveredRoots == DiscoverRepoRoots(files)
        localBin == FindExisting(files, "local", discoveredRoots)
        cargoManifestPath == FindExisting(files, "manifest", discoveredRoots)
    IN  IF File("env", "set") \in files THEN Resolution("env", File("env", "set"), <<>>)
        ELSE IF File("pref", "set") \in files
        THEN Resolution("pref_bin", File("pref", "set"), <<>>)
        ELSE IF appBridgePath # NoFile THEN Resolution("app_bridge", appBridgePath, <<>>)
        ELSE IF appMainPath # NoFile
        THEN Resolution("app_main_cli", appMainPath, <<"--bridge-cli">>)
        ELSE IF localBin # NoFile THEN Resolution("local", localBin, <<>>)
        ELSE IF cargoManifestPath = NoFile THEN ResolutionError
        ELSE Resolution("cargo", File("cargo", "path"),
                        <<"run", "--quiet", "--manifest-path", cargoManifestPath.at,
                          "--bin", "anote_bridge">>)

\* bridgeTimeoutMs with BRIDGE_TIMEOUT_MS and CARGO_BRIDGE_TIMEOUT_MS of
\* bridge-timeout.ts, as its test pins it: types.ts:167-176.
BridgeTimeoutMs(source) == IF source = "cargo" THEN "extended" ELSE "default"

\* What the child has written to its standard output, as JSON.parse and the
\* checks of bridge.ts:459-485 take it: no text, text that is not JSON, a success
\* response, or a failure response with its code ("" when it has none).
Output(json, empty, ok, code) == [json |-> json, empty |-> empty, ok |-> ok, code |-> code]

NoOutput == Output(FALSE, TRUE, FALSE, "")

Outputs ==
    {NoOutput, Output(FALSE, FALSE, FALSE, ""), Output(TRUE, FALSE, TRUE, "")}
        \cup {Output(TRUE, FALSE, FALSE, c) : c \in {"VALIDATION", "CONFLICT", "INTERNAL", ""}}

\* How an invocation ends: the data, or the error thrown.
Ended(kind, code) == [kind |-> kind, code |-> code]

\* One line of the log: logBridgeEvent, bridge.ts:100-109.
LogEvent(event, fields) == [event |-> event, fields |-> fields]

\* One invocation of callBridge: the locals of its closure (bridge.ts:349-351,
\* 374), the child process, the first settlement of its promise and the log
\* lines it wrote.
NoCall ==
    [op |-> None, source |-> "none", timeoutMs |-> "none", timer |-> FALSE,
     spawnFailed |-> FALSE, timeoutHit |-> FALSE, child |-> "none", kills |-> 0,
     stdout |-> NoOutput, outcome |-> Ended("none", ""), reports |-> <<>>]

\* resolve and reject settle the promise once; later calls change nothing.
Settled(c, o) == IF c.outcome.kind = "pending" THEN [c EXCEPT !.outcome = o] ELSE c

Logged(c, event, fields) == [c EXCEPT !.reports = Append(@, LogEvent(event, fields))]

\* Variant: every class gets the default timeout.
SpawnedDefault(op, r) ==
    [NoCall EXCEPT !.op = op, !.source = r.source, !.timeoutMs = "default",
                   !.timer = TRUE, !.child = "spawning",
                   !.outcome = Ended("pending", "")]

\* callBridge, bridge.ts:348-372: the child is spawned and the timer is armed
\* with the timeout of the source.
Spawned(op, r) ==
    [NoCall EXCEPT !.op = op, !.source = r.source, !.timeoutMs = BridgeTimeoutMs(r.source),
                   !.timer = TRUE, !.child = "spawning",
                   !.outcome = Ended("pending", "")]

\* callBridge, bridge.ts:337-346: the resolution has failed.
Unresolved(op) ==
    Logged([NoCall EXCEPT !.op = op, !.source = "error",
                          !.outcome = Ended("unresolved", "")],
           "bridge_resolution_failed", {"op", "error", "payload", "cwd", "dirname"})

\* An update timestamp, or none (undefined).
Stamp(has, at) == [has |-> has, at |-> at]

NoStamp == Stamp(FALSE, 0)

\* The payload of a request as JSON.stringify writes it: a key whose value is
\* undefined is left out. bridge.ts:512-530.
Request(op, id, updatedAt) == [op |-> op, id |-> id, updated_at |-> updatedAt]

NoRequest == Request(None, None, NoStamp)

\* The largest update timestamp.
MaxStamp == 3

\* SearchNotesCommand and UpdateNoteForm for one note, search-notes.tsx: the
\* updated_at of its row in the database (0: no row), the list item of the last
\* search (0: not listed), selectedId and selectedNote, the form (closed,
\* loading, ready) with loadedUpdatedAt, and the request last sent with whether
\* its caller still awaits it.
NoUi ==
    [db |-> 0, items |-> 0, selectedId |-> None, selectedNote |-> NoStamp,
     form |-> "closed", loadedUpdatedAt |-> NoStamp, request |-> NoRequest,
     awaiting |-> FALSE]

\* The variables of the application.
appVars == <<structVars, restVars, inflight, activeFolderId, activeNoteId>>

\* callBridge, bridge.ts:325-372, 454-455: the command is resolved anew for every
\* request, the child is spawned and the request is written to it. The caller
\* awaits the invocation before it makes the next one.
Bridged(op) ==
    /\ call.outcome.kind # "pending"
    /\ resolved' = ResolveBridgeCommand(candidates)
    /\ call' = IF resolved'.source = "error" THEN Unresolved(op) ELSE Spawned(op, resolved')

\* A request of the extension, whatever its payload.
CallBridge(op) ==
    /\ Bridged(op)
    /\ ev' = Step("resolve", op, resolved'.source)
    /\ UNCHANGED <<candidates, ui, appVars>>

\* The anote application or an earlier request changes or deletes the row.
ExternalStore(stamp) ==
    /\ ui.db > 0 /\ (stamp = 0 \/ stamp > ui.db)
    /\ ui' = [ui EXCEPT !.db = stamp]
    /\ ev' = Step("store", "n1", None)
    /\ UNCHANGED <<candidates, resolved, call, appVars>>

\* The search effect, search-notes.tsx:121-150, with the selection effect for a
\* selection that became empty, search-notes.tsx:154-157.
SearchDone ==
    /\ ui' = [ui EXCEPT !.items = ui.db,
                        !.selectedId = IF ui.db > 0 THEN "n1" ELSE None,
                        !.selectedNote = IF ui.db > 0 THEN @ ELSE NoStamp]
    /\ ev' = Step("search", "n1", None)
    /\ UNCHANGED <<candidates, resolved, call, appVars>>

\* The selection effect, search-notes.tsx:152-171.
SelectedLoaded(fails) ==
    /\ ui.selectedId # None
    /\ ui' = [ui EXCEPT !.selectedNote = IF fails \/ ui.db = 0 THEN NoStamp
                                         ELSE Stamp(TRUE, ui.db)]
    /\ ev' = Step("selected", "n1", None)
    /\ UNCHANGED <<candidates, resolved, call, appVars>>

\* Action.Push of UpdateNoteForm, search-notes.tsx:288-292, and its initial
\* state, search-notes.tsx:41-46.
OpenForm ==
    /\ ui.items > 0 /\ ui.form = "closed"
    /\ ui' = [ui EXCEPT !.form = "loading", !.loadedUpdatedAt = NoStamp]
    /\ ev' = Step("open", "n1", None)
    /\ UNCHANGED <<candidates, resolved, call, appVars>>

\* The load effect of UpdateNoteForm, search-notes.tsx:48-74.
FormLoaded(fails) ==
    /\ ui.form = "loading"
    /\ ui' = [ui EXCEPT !.form = "ready",
                        !.loadedUpdatedAt = IF fails \/ ui.db = 0 THEN @
                                            ELSE Stamp(TRUE, ui.db)]
    /\ ev' = Step("loaded", "n1", None)
    /\ UNCHANGED <<candidates, appVars, resolved, call>>

\* submit, search-notes.tsx:76-84, with updateNoteViaBridge, bridge.ts:512-521.
\* isLoading shows the form as busy; the submit action stays available.
Submit ==
    /\ ui.form \in {"loading", "ready"}
    /\ Bridged("update_note")
    /\ ui' = [ui EXCEPT !.request = Request("update_note", "n1", ui.loadedUpdatedAt),
                        !.awaiting = TRUE]
    /\ ev' = Step("submit", "n1", None)
    /\ UNCHANGED <<candidates, appVars>>

\* deleteNote, search-notes.tsx:214-230, with deleteNoteViaBridge,
\* bridge.ts:523-530.
DeleteNoteAction ==
    /\ ui.items > 0 /\ ui.form = "closed"
    /\ Bridged("delete_note")
    /\ ui' = [ui EXCEPT !.request = Request("delete_note", "n1",
                                            IF ui.selectedNote.has THEN ui.selectedNote
                                            ELSE Stamp(TRUE, ui.items)),
                        !.awaiting = TRUE]
    /\ ev' = Step("delete", "n1", None)
    /\ UNCHANGED <<candidates, appVars>>

\* What follows the await of the request: search-notes.tsx:85-96 and 231-247.
\* After an update the form is popped; after a failure it stays.
RequestDone ==
    /\ ui.awaiting /\ call.outcome.kind # "pending"
    /\ ui' = [ui EXCEPT !.awaiting = FALSE,
                        !.form = IF ui.request.op = "update_note" /\ call.outcome.kind = "data"
                                 THEN "closed" ELSE @]
    /\ ev' = Step("done", "n1", call.outcome.kind)
    /\ UNCHANGED <<candidates, resolved, call, appVars>>

\* child.stdout.on("data"), bridge.ts:377-379.
ChildStdout(out) ==
    /\ call.child \in {"spawning", "running"}
    /\ call.stdout = NoOutput /\ out # NoOutput
    /\ call' = [call EXCEPT !.stdout = out, !.child = "running"]
    /\ ev' = Step("stdout", call.op, None)
    /\ UNCHANGED <<candidates, resolved, ui, appVars>>

\* child.on("error"), bridge.ts:385-416.
OnError(c, errno) ==
    Settled(Logged([c EXCEPT !.spawnFailed = TRUE, !.timer = FALSE],
                   "spawn_error",
                   {"op", "cmd", "args", "source", "code", "message", "path", "syscall",
                    "payload", "diagnostics"}),
            Ended(IF errno = "ENOENT" THEN "not_found" ELSE "launch_failed", ""))

\* The process could not be spawned: the error event is the first event of the
\* child.
SpawnError(errno) ==
    /\ call.child = "spawning"
    /\ call' = [OnError(call, errno) EXCEPT !.child = "failed"]
    /\ ev' = Step("error", call.op, errno)
    /\ UNCHANGED <<candidates, resolved, ui, appVars>>

\* The timer callback, bridge.ts:359-372. child.kill either delivers the signal
\* or, when the signal cannot be delivered, emits the error event of the child
\* before it returns.
BridgeTimeout(killFails) ==
    /\ call.timer
    /\ LET hit == [call EXCEPT !.timeoutHit = TRUE, !.timer = FALSE, !.child = "running"]
           killed == IF killFails THEN OnError(hit, "EPERM")
                     ELSE [hit EXCEPT !.kills = @ + 1]
       IN  call' = Settled(Logged(killed, "bridge_timeout",
                                  {"op", "cmd", "args", "source", "timeout_ms", "payload",
                                   "diagnostics"}),
                           Ended("timeout", ""))
    /\ ev' = Step("timeout", call.op, IF killFails THEN "EPERM" ELSE None)
    /\ UNCHANGED <<candidates, resolved, ui, appVars>>

\* Variant: every failure response is thrown with the code INTERNAL.
ParsedInternal(c) ==
    IF ~c.stdout.json
    THEN Settled(Logged(c, "bridge_invalid_json",
                        {"op", "cmd", "args", "source", "response_preview", "payload",
                         "diagnostics"}),
                 Ended(IF c.source = "app_main_cli" /\ c.stdout.empty
                       THEN "no_response" ELSE "invalid_json", ""))
    ELSE IF ~c.stdout.ok
    THEN Settled(c, Ended("BridgeError", "INTERNAL"))
    ELSE Settled(c, Ended("data", ""))

\* The rest of callBridge once the promise has given the output, bridge.ts:457-487.
Parsed(c) ==
    IF ~c.stdout.json
    THEN Settled(Logged(c, "bridge_invalid_json",
                        {"op", "cmd", "args", "source", "response_preview", "payload",
                         "diagnostics"}),
                 Ended(IF c.source = "app_main_cli" /\ c.stdout.empty
                         THEN "no_response" ELSE "invalid_json", ""))
    ELSE IF ~c.stdout.ok
    THEN Settled(c, Ended("BridgeError",
                            IF c.stdout.code = "" THEN "INTERNAL" ELSE c.stdout.code))
    ELSE Settled(c, Ended("data", ""))

\* child.on("close"), bridge.ts:418-452, and what follows in callBridge when the
\* promise resolves.
ChildClose(code, stderr) ==
    /\ call.child \in {"spawning", "running", "failed"}
    /\ LET c == [call EXCEPT !.timer = FALSE, !.child = "closed"]
       IN  call' = IF c.spawnFailed \/ c.timeoutHit THEN c
                   ELSE IF code # 0
                   THEN Settled(Logged(c, "bridge_exit_nonzero",
                                       {"op", "cmd", "args", "source", "code", "stderr",
                                        "stdout", "payload", "diagnostics"}),
                                Ended(IF c.source = "app_main_cli" /\ ~stderr
                                        THEN "unsupported" ELSE "exit", ""))
                   ELSE Parsed(c)
    /\ ev' = Step("close", call.op, IF code = 0 THEN "0" ELSE "1")
    /\ UNCHANGED <<candidates, resolved, ui, appVars>>

\* A file the resolution asks about is installed, built or removed between two
\* requests.
FileChange(file) ==
    /\ candidates' = IF file \in candidates THEN candidates \ {file}
                     ELSE candidates \cup {file}
    /\ ev' = Step("file", None, None)
    /\ UNCHANGED <<resolved, call, ui, appVars>>

-----------------------------------------------------------------------------

\* The state after DataLayer.load of a store that holds the notes in present, the
\* folders fs and the tags ts, with the selection af, an.
StartedIn(present, fs, ts, af, an) ==
    /\ now = 1
    /\ store = [n \in NoteIds |->
                  IF n \in present
                  THEN [live |-> TRUE, title |-> "a", body |-> "x", updatedAt |-> 0,
                        folderId |-> "f1", ext |-> 0, w |-> NoW]
                  ELSE NoRow]
    /\ notes = [n \in NoteIds |-> LoadedNote(store[n])]
    /\ saveTimeouts = [n \in NoteIds |-> NoTimer]
    /\ lastSaved = [n \in NoteIds |-> NoSaved]
    /\ inflight = {}
    /\ token = 0
    /\ watcher = "Idle"
    /\ forced = FALSE
    /\ fetched = 0
    /\ lastToken = 0
    /\ nedits = 0
    /\ nexternal = 0
    /\ issued = [n \in NoteIds |-> 0]
    /\ applied = [n \in NoteIds |-> 0]
    /\ retry = [n \in NoteIds |-> "none"]
    /\ prevCall = [n \in NoteIds |-> NoSaved]
    /\ overtaken = [n \in NoteIds |-> NotOvertaken]
    /\ folders = fs
    /\ storeFolders = fs
    /\ tags = ts
    /\ storeTags = ts
    /\ activeFolderId = af
    /\ activeNoteId = an
    /\ loaded = NotLoading
    /\ ev = Step("init", None, None)

\* The store of an installation that has its Inbox folder.
Started(present, ts, af, an) == StartedIn(present, {Inbox}, ts, af, an)

\* The lists and the indexes before any handler has run: rebuildIndexes at the
\* end of DataLayer.load, state.js:82.
StructStarted(ns, fs, ts) ==
    /\ dataNotes = ns
    /\ dataFolders = fs
    /\ dataTags = ts
    /\ notesById = RebuiltNotesById(ns)
    /\ foldersById = RebuiltFoldersById(fs)
    /\ notesByFolderId = RebuiltNotesByFolderId(ns, fs)
    /\ notesCountByFolder = RebuiltNotesCountByFolder(ns, fs)
    /\ tagsById = RebuiltTagsById(ts)

NoStructure == StructStarted(<<>>, [f \in TreeFolders |-> NoFolder], {})

\* No bridge command has been resolved.
NoBridge == candidates = {} /\ resolved = NoResolution /\ call = NoCall /\ ui = NoUi

Init == Started(NoteIds, {}, None, None) /\ NoStructure /\ NoBridge

\* The cache process on its own: the coalescer, the store answering its requests.
NextCoalescer ==
    \/ Tick
    \/ \E id \in NoteIds, v \in Titles : UpdateNoteTitle(id, v)
    \/ \E id \in {"n1"}, v \in Bodies : UpdateNoteBody(id, v)
    \/ \E id \in NoteIds : TimerFire(id)
    \/ Flush
    \/ \E id \in {"n2"} : DeleteNote(id)
    \/ \E m \in inflight, internal \in BOOLEAN : StoreRespond(m, internal)

SpecCoalescer == Init /\ [][NextCoalescer]_vars

\* One note edited locally and by the external writer, with the sync watcher.
SyncNotes == {"n1"}

NextSync ==
    \/ Tick
    \/ nedits < MaxSyncEdits /\ \E id \in SyncNotes, v \in Titles : UpdateNoteTitle(id, v)
    \/ \E id \in SyncNotes : TimerFire(id)
    \/ \E m \in inflight : StoreRespond(m, FALSE)
    \/ \E id \in SyncNotes, v \in {"b"} : ExternalWrite(id, v)
    \/ \E kind \in {"timer", "focus", "force"} : WatcherTrigger(kind)
    \/ TokenUnchanged
    \/ TokenChanged
    \/ FetchFolders
    \/ FetchNotes
    \/ ReloadDone

SpecSync == Init /\ [][NextSync]_vars


\* Reconciliation: note n1 is open in the editor, n2 does not exist yet; the
\* external writer updates, creates and deletes notes while the watcher cycles.
InitReconcile == Started({"n1"}, TagIds, "f1", "n1") /\ NoStructure /\ NoBridge

WatcherStep ==
    \/ TokenUnchanged
    \/ TokenChanged
    \/ TokenFetchFailed
    \/ FetchFolders
    \/ FetchNotes
    \/ ReloadDone
    \/ LoadFailed

NextReconcile ==
    \/ nedits < MaxSyncEdits /\ UpdateNoteTitle("n1", "b")
    \/ \E m \in inflight : StoreRespond(m, FALSE)
    \/ ExternalWrite("n1", "b")
    \/ ExternalCreate("n2", "b")
    \/ ExternalDelete("n1")
    \/ AddFolder("f2")
    \/ \E kind \in {"timer", "focus", "force"} : WatcherTrigger(kind)
    \/ WatcherStep

SpecReconcile == InitReconcile /\ [][NextReconcile]_vars

\* The editor shows the note: renderEditorPanel writes the title and body inputs
\* of the active note once its body has been fetched, render.js:997-1004.
InEditor(id) == activeNoteId = id /\ notes[id].live /\ notes[id].body # Null

\* The body of the open note: fetched, edited in the editor, written by the timer
\* or a flush, with the watcher reloading the metadata.
NextBody ==
    \/ Tick
    \/ LoadBody("n1")
    \/ InEditor("n1") /\ nedits < MaxSyncEdits /\ UpdateNoteTitle("n1", "b")
    \/ InEditor("n1") /\ nedits < MaxSyncEdits /\ UpdateNoteBody("n1", "y")
    \/ TimerFire("n1")
    \/ Flush
    \/ \E m \in inflight : StoreRespond(m, FALSE)
    \/ \E kind \in {"timer", "force"} : WatcherTrigger(kind)
    \/ TokenUnchanged
    \/ TokenChanged
    \/ FetchFolders
    \/ FetchNotes
    \/ ReloadDone

SpecBody == InitReconcile /\ [][NextBody]_vars

\* The watcher's cycle with its triggers, one local edit and the external writer.
NextWatcher ==
    \/ nedits < MaxSyncEdits /\ UpdateNoteTitle("n1", "b")
    \/ \E m \in inflight, internal \in BOOLEAN : StoreRespond(m, internal)
    \/ ExternalWrite("n1", "b")
    \/ \E kind \in {"timer", "focus", "force"} : WatcherTrigger(kind)
    \/ \E kind \in {"timer", "focus", "force"} : TriggerIgnored(kind)
    \/ WatcherStep

SpecWatcher == InitReconcile /\ [][NextWatcher]_vars

\* The token fetch and the calls of the bulk load are always answered.
SpecWatcherLive == SpecWatcher /\ WF_vars(WatcherStep)

\* A fresh installation: the store holds no folder and no note; the bridge creates
\* the Inbox with the first note it is asked to create.
InitFresh == StartedIn({}, {}, {}, None, None) /\ NoStructure /\ NoBridge

NextFresh ==
    \/ \E id \in {"n1", "n2"} : ExternalCreate(id, "a")
    \/ \E id \in {"n1", "n2"} : DeleteNote(id)
    \/ AddFolder("f2")
    \/ \E m \in inflight : StoreRespond(m, FALSE)
    \/ \E kind \in {"timer", "focus", "force"} : WatcherTrigger(kind)
    \/ WatcherStep

SpecFresh == InitFresh /\ [][NextFresh]_vars

\* The selection: both notes in one folder, n1 open in the editor.
InitSelect == Started(NoteIds, {}, "f1", "n1") /\ NoStructure /\ NoBridge

NextSelect ==
    \/ Tick
    \/ \E id \in NoteIds : UpdateNoteTitle(id, "b")
    \/ \E id \in NoteIds : TimerFire(id)
    \/ \E m \in inflight : StoreRespond(m, FALSE)
    \/ \E f \in FolderIds : SelectFolder(f)
    \/ \E id \in NoteIds : SelectNote(id)
    \/ \E id \in NoteIds : SelectCommandResult(id)
    \/ \E down \in BOOLEAN : ArrowKey(down)
    \/ AddFolder("f2")
    \/ BeforeUnload

SpecSelect == InitSelect /\ [][NextSelect]_vars

\* The notes list of one folder: one unpinned note, two folders, m3 in a backup.
InitList ==
    /\ Started({}, {}, "g1", None)
    /\ StructStarted(<<[id |-> "m1", folderId |-> "g1", pinned |-> FALSE, sortOrder |-> 0]>>,
                     [f \in TreeFolders |->
                         IF f = "g3" THEN NoFolder ELSE [live |-> TRUE, parentId |-> None]],
                     {})
    /\ NoBridge

NextList ==
    \/ \E id \in ListNotes : AddNote(id)
    \/ \E id \in ListNotes : TogglePinNote(id)
    \/ \E d, t \in ListNotes, below \in BOOLEAN : ReorderByTarget(d, t, below)
    \/ \E d \in ListNotes : OnNotesListDrop(d)
    \/ \E id \in ListNotes : DeleteNoteEntry(id)
    \/ ImportBackup
    \/ ImportBackupDone
    \/ ImportBackupFailed

SpecList == InitList /\ [][NextList]_vars

\* The folder tree: g1 with its child g2 and a note in each; g3 is not created yet.
InitTree ==
    /\ Started({}, {}, "g1", "m1")
    /\ StructStarted(<<[id |-> "m1", folderId |-> "g1", pinned |-> FALSE, sortOrder |-> 0],
                       [id |-> "m2", folderId |-> "g2", pinned |-> FALSE, sortOrder |-> 0]>>,
                     [f \in TreeFolders |->
                         IF f = "g1" THEN [live |-> TRUE, parentId |-> None]
                         ELSE IF f = "g2" THEN [live |-> TRUE, parentId |-> "g1"]
                         ELSE NoFolder],
                     {})
    /\ NoBridge

NextTree ==
    \/ \E p \in TreeFolders \cup {None} : AddFolderEntry("g3", p)
    \/ \E f \in TreeFolders : SelectFolderEntry(f)
    \/ \E f \in TreeFolders : DeleteFolder(f)
    \/ \E f \in TreeFolders, p \in TreeFolders \cup {None} : MoveFolderTo(f, p)
    \/ \E m \in inflight : MoveFolderDone(m)
    \/ \E m \in inflight : MoveFolderFailed(m)

SpecTree == InitTree /\ [][NextTree]_vars

\* The lists and their indexes under the handlers that add and remove entries.
NextIndex ==
    \/ \E p \in TreeFolders \cup {None} : AddFolderEntry("g3", p)
    \/ \E f \in TreeFolders : SelectFolderEntry(f)
    \/ \E f \in TreeFolders : DeleteFolder(f)
    \/ AddNote("m3")
    \/ \E id \in ListNotes : DeleteNoteEntry(id)
    \/ CreateTag("t1")
    \/ \E m \in inflight : CreateTagDone(m)
    \/ DeleteTag("t1")
    \/ \E m \in inflight : DeleteTagDone(m)
    \/ \E m \in inflight : TagCallFailed(m)
    \/ ImportBackup
    \/ ImportBackupDone
    \/ ImportBackupFailed

SpecIndex == InitTree /\ [][NextIndex]_vars

\* Selection and navigation over the lists: g1 with its child g2 and a note in
\* each, m1 open.
NextNavigate ==
    \/ \E f \in TreeFolders : SelectFolderEntry(f)
    \/ \E id \in ListNotes : SelectNoteEntry(id)
    \/ \E id \in ListNotes : SelectCommandResultEntry(id)
    \/ \E id \in ListNotes : SelectNoteFromBacklink(id)
    \/ \E id \in {"m2", "m3"} : NavigateToWikiLink(id)
    \/ \E m \in inflight : WikiLinkCreated(m)
    \/ \E down \in BOOLEAN : ArrowKeyEntry(down)
    \/ AddNote("m3")
    \/ \E id \in {"m1", "m3"} : DeleteNoteEntry(id)
    \/ DeleteFolder("g2")

SpecNavigate == InitTree /\ [][NextNavigate]_vars

\* The cache a bulk load leaves when the bridge creates the Inbox and its first
\* note between the load's read of the folders and its read of the notes
\* (state.js:67-68): the note is cached, its folder is not.
InitDangling ==
    /\ Started({}, {}, None, None)
    /\ StructStarted(<<[id |-> "m1", folderId |-> "g1", pinned |-> FALSE, sortOrder |-> 0]>>,
                     [f \in TreeFolders |-> NoFolder], {})
    /\ NoBridge

SpecDangling == InitDangling /\ [][NextIndex]_vars

\* The extension with any combination of the files present and no request made.
InitBridge ==
    /\ Started({}, {}, None, None)
    /\ NoStructure
    /\ candidates \in SUBSET BridgeFiles
    /\ resolved = NoResolution
    /\ call = NoCall
    /\ ui = NoUi

NextBridge ==
    \/ \E op \in {"create_note", "update_note", "delete_note"} : CallBridge(op)
    \/ \E file \in BridgeFiles : FileChange(file)

SpecBridge == InitBridge /\ [][NextBridge]_vars

\* One installation for each class of candidate, and one with nothing to find.
Installations ==
    {{}, {File("env", "set")}, {File("pref", "set")}, {File("app_bridge", "sys")},
     {File("app_main", "home")}, {File("local", "r1"), File("manifest", "r1")},
     {File("manifest", "r2")}}

InitInvoke ==
    /\ Started({}, {}, None, None)
    /\ NoStructure
    /\ candidates \in Installations
    /\ resolved = NoResolution
    /\ call = NoCall
    /\ ui = NoUi

\* The invocations of the extension and the events of their child processes.
NextInvoke ==
    \/ \E op \in {"create_note", "update_note", "delete_note"} : CallBridge(op)
    \/ \E out \in Outputs : ChildStdout(out)
    \/ \E errno \in {"ENOENT", "EACCES"} : SpawnError(errno)
    \/ \E killFails \in BOOLEAN : BridgeTimeout(killFails)
    \/ \E code \in {0, 1}, stderr \in BOOLEAN : ChildClose(code, stderr)

SpecInvoke == InitInvoke /\ [][NextInvoke]_vars

\* The search command is opened on a database that holds the note; the bridge
\* is the one ANOTE_BRIDGE_BIN names.
InitUi ==
    /\ Started({}, {}, None, None)
    /\ NoStructure
    /\ candidates = {File("env", "set")}
    /\ resolved = NoResolution
    /\ call = NoCall
    /\ ui = [NoUi EXCEPT !.db = 1]

\* The user, the effects of the two components, other writers of the database
\* and the child processes of the requests.
NextUi ==
    \/ \E stamp \in 0..MaxStamp : ExternalStore(stamp)
    \/ SearchDone
    \/ \E fails \in BOOLEAN : SelectedLoaded(fails)
    \/ OpenForm
    \/ \E fails \in BOOLEAN : FormLoaded(fails)
    \/ Submit
    \/ DeleteNoteAction
    \/ RequestDone
    \/ \E out \in Outputs : ChildStdout(out)
    \/ \E code \in {0, 1}, stderr \in BOOLEAN : ChildClose(code, stderr)

SpecUi == InitUi /\ [][NextUi]_vars

Next ==
    \/ NextCoalescer
    \/ NextSync
    \/ \E id \in NoteIds : LoadBody(id)
    \/ \E id \in NoteIds, v \in Titles : ExternalWrite(id, v)

Spec == Init /\ [][Next]_vars

-----------------------------------------------------------------------------
(* What a step did, read off the two states of the step *)

\* The requests the step issued and the requests it answered.
Issued == inflight' \ inflight

Answered == inflight \ inflight'

IssuedFor(n) == {m \in Issued : m.id = n /\ m.cmd = "update_note"}

SameFields(a, b) == Fields(a) = Fields(b)

-----------------------------------------------------------------------------
(* The write coalescer: C1 - C8, checked under SpecCoalescer *)

\* C1 (as stated): when the save timer of a note fires at the end of a burst of
\* edits, exactly one update_note for the note is issued, carrying the note's
\* final title, body and update timestamp.
C1_ExactlyOneWrite ==
    [][\A n \in NoteIds :
          (ev'.op = "timer" /\ ev'.id = n) =>
              /\ Cardinality(IssuedFor(n)) = 1
              /\ \A m \in IssuedFor(n) : SameFields(m, TimerNote(n))]_vars

\* C1 (amended): an edit issues no write and (re)arms the note's timer; when the
\* timer fires, exactly one update_note with the note's final title, body and
\* update timestamp is issued, unless these equal the last-persisted record of the
\* note, in which case none is issued.
C1_OneWriteUnlessDuplicate ==
    [][\A n \in NoteIds :
          /\ (ev'.op = "edit" /\ ev'.id = n) =>
                /\ IssuedFor(n) = {}
                /\ saveTimeouts'[n].pending
          /\ (ev'.op = "timer" /\ ev'.id = n) =>
                /\ ~saveTimeouts'[n].pending
                /\ IF lastSaved[n].has /\ SameFields(lastSaved[n], TimerNote(n))
                   THEN IssuedFor(n) = {}
                   ELSE /\ Cardinality(IssuedFor(n)) = 1
                        /\ \A m \in IssuedFor(n) : SameFields(m, TimerNote(n))]_vars

\* Two edits of n1 and nothing else were made, the timer fired, and the single
\* write of n1 with its final values is in flight.
C1_Witness ==
    /\ ev.op = "timer" /\ ev.id = "n1"
    /\ nedits = 2 /\ notes["n2"].updatedAt = 0
    /\ \E m \in inflight : m.id = "n1" /\ m.seq = 1 /\ SameFields(m, notes["n1"])
    /\ issued["n1"] = 1

\* C2: arming, re-arming or firing the timer of one note leaves the pending save,
\* the last-persisted record and the writes of every other note alone, and the
\* write a firing timer issues carries the values of its own note.
C2_PerNoteDebounce ==
    [][\A a \in NoteIds :
          /\ (ev'.op \in {"edit", "timer"} /\ ev'.id # a) =>
                /\ saveTimeouts'[a] = saveTimeouts[a]
                /\ lastSaved'[a] = lastSaved[a]
                /\ IssuedFor(a) = {}
          /\ (ev'.op = "timer" /\ ev'.id = a) =>
                \A m \in IssuedFor(a) : SameFields(m, TimerNote(a))]_vars

\* Both notes were edited; the timer of one fired and issued its write while the
\* save of the other is still pending.
C2_Witness ==
    /\ ev.op = "timer"
    /\ \E m \in inflight : m.id = ev.id /\ m.cmd = "update_note"
    /\ \E a \in NoteIds \ {ev.id} : saveTimeouts[a].pending /\ notes[a].updatedAt > 0

\* C3: a persistNote call whose title, body and update timestamp equal those of
\* the previous call for the same note issues no update_note.
C3_UnchangedPersistSkipped ==
    [][\A n \in ev'.calls :
          (prevCall[n].has /\ prevCall'[n] = prevCall[n]) => IssuedFor(n) = {}]_vars

\* persistNote was called a second time with unchanged values and was skipped.
C3_Witness ==
    /\ ev.op \in {"timer", "flush"}
    /\ \E n \in ev.skipped : issued[n] = 1 /\ prevCall[n] = lastSaved[n]

C5_FlushAwaitsWrites ==
    [][ev'.op = "flush" => \A m \in Issued : m \notin inflight']_vars

\* C6: the last-persisted record of a note changes only when a write of that note
\* succeeded.
C6_RecordOnlyOnSuccess ==
    [][\A n \in NoteIds :
          lastSaved'[n] # lastSaved[n] =>
              ev'.op = "resp" /\ ev'.id = n /\ ev'.outcome = "ok"]_vars

\* C7: a failed write leaves the cache alone, and the persistNote call that follows
\* the next edit of the note issues an update_note with the note's current values.
C7_RetryOnNextEdit ==
    [][/\ ev'.op = "resp" => notes' = notes
       /\ \A n \in ev'.calls :
             retry[n] = "edited" =>
                 \E m \in IssuedFor(n) : SavedRecord(m) = prevCall'[n]]_vars

\* C8: the writes of a note are applied to the store in the order they were issued.
C8_WritesAppliedInOrder ==
    [][\A n \in NoteIds : applied'[n] >= applied[n]]_vars

-----------------------------------------------------------------------------
(* Conflicts and reconciliation: C9, C10, checked under SpecSync *)

\* C9: the step that receives CONFLICT for a write sends nothing again and
\* requests a forced check: an idle watcher starts a forced check at once.
C9_ConflictForcesReconcile ==
    [][(ev'.op = "resp" /\ ev'.outcome = "CONFLICT") =>
          /\ Issued = {}
          /\ watcher = "Idle" => (watcher' = "Checking" /\ forced')]_vars

C11_UnseenVersionNeverOverwritten ==
    [][\A m \in Answered :
          (m.cmd = "update_note" /\ store[m.id].live /\ m.seen < store[m.id].ext) =>
              (ev'.outcome = "CONFLICT" /\ store' = store)]_vars

\* C12: at most one check cycle is in flight. A cycle starts only from Idle; a
\* trigger that arrives while the watcher is Checking or Reconciling changes
\* nothing (no second token fetch, no flush, no reload, nothing remembered for
\* later); and the step that ends a cycle leaves the watcher Idle with no forced
\* check and no load pending.
C12_SingleCycle ==
    [][/\ ev'.op = "check" => (watcher = "Idle" /\ watcher' = "Checking")
       /\ ev'.op = "ignored" =>
             /\ watcher # "Idle"
             /\ UNCHANGED <<watcher, forced, fetched, loaded, lastToken, inflight,
                            saveTimeouts, lastSaved, notes>>
       /\ (watcher # "Idle" /\ watcher' = "Idle") =>
             (~forced' /\ loaded' = NotLoading)]_vars

\* A trigger was ignored while the reload was in flight; nothing is remembered of it.
C12_Witness ==
    /\ ev.op = "ignored"
    /\ watcher = "Reconciling"
    /\ loaded.step = "tags"
    /\ ~forced

\* C13: a check whose token fetch succeeds enters Reconciling if and only if the
\* fetched token differs from the last observed token or the check was forced;
\* otherwise it returns to Idle. The token it fetched is the one the cycle keeps.
C13_ReconcileIffChangedOrForced ==
    [][(watcher = "Checking" /\ ev'.op \in {"same", "reconcile"}) =>
          /\ watcher' \in {"Idle", "Reconciling"}
          /\ (watcher' = "Reconciling") <=> (token # lastToken \/ forced)
          /\ (watcher' = "Idle") <=> (ev'.op = "same")
          /\ (watcher' = "Reconciling") => fetched' = token]_vars

\* A forced check found the token it already knew and entered Reconciling.
C13_Witness ==
    /\ watcher = "Reconciling"
    /\ ev.op = "reconcile"
    /\ forced
    /\ fetched = lastToken
    /\ token = lastToken

\* C14: a non-forced check that fetches a token equal to the last observed one is
\* a no-op: neither its start nor its end changes the cached folders, notes and
\* tags (the indexes are functions of them), the active folder, the active note
\* or the last observed token, and it ends with the watcher Idle.
C14_EqualTokenNoOp ==
    [][/\ (ev'.op = "check" /\ ~forced') =>
             UNCHANGED <<notes, folders, tags, activeFolderId, activeNoteId, lastToken>>
       /\ ev'.op = "same" =>
             /\ watcher' = "Idle"
             /\ UNCHANGED <<notes, folders, tags, activeFolderId, activeNoteId, lastToken>>
             /\ loaded' = NotLoading]_vars

\* A check ended on an equal token while the cache holds a local edit and a
\* folder the store has not confirmed yet.
C14_Witness ==
    /\ ev.op = "same"
    /\ watcher = "Idle"
    /\ notes["n1"].title = "b"
    /\ store["n1"].title = "a"
    /\ "f2" \in folders
    /\ activeFolderId = "f2"

\* C18: the last observed token never decreases; it changes only in the step that
\* ends a reconciliation, and its new value is the token fetched by the check of
\* that same cycle (not the store's token at the time the cycle ends).
C18_LastTokenMonotone ==
    [][/\ lastToken' >= lastToken
       /\ lastToken' # lastToken =>
             /\ watcher = "Reconciling" /\ watcher' = "Idle"
             /\ ev'.op \in {"reload", "loadfailed"}
             /\ lastToken' = fetched
       /\ (watcher = "Reconciling" /\ watcher' = "Idle") => lastToken' = fetched
       /\ (watcher = "Checking" /\ watcher' = "Reconciling") => fetched' = token]_vars

\* A reconciliation ended after the store's token moved on during the reload:
\* the last observed token is the fetched one, behind the store's.
C18_Witness ==
    /\ ev.op = "reload"
    /\ watcher = "Idle"
    /\ lastToken > 0
    /\ token > lastToken

\* C20: every cycle that leaves Idle returns to Idle, whether the token fetch,
\* a flushed write or the reload succeeds or fails; a cycle that entered
\* Reconciling leaves it only by the step that ends the reload, never back to
\* Checking and never by a trigger; hence the watcher is Idle again and again and
\* no trigger is ignored forever.
C20_CycleReturnsToIdle ==
    /\ (watcher # "Idle") ~> (watcher = "Idle")
    /\ []<>(watcher = "Idle")
    /\ [][watcher = "Reconciling" =>
             /\ watcher' \in {"Reconciling", "Idle"}
             /\ watcher' = "Idle" =>
                   (ev'.op \in {"reload", "loadfailed"} /\ loaded' = NotLoading)]_vars

\* A cycle whose reload failed, after a write flushed by it was rejected, is back
\* in Idle.
C20_Witness ==
    /\ ev.op = "loadfailed"
    /\ watcher = "Idle"
    /\ retry["n1"] = "failed"

\* C15: inside one Reconciling cycle the flush comes first, then the reload
\* (folders, notes, tags), and the step that replaces the cache also re-validates
\* the selection and sets the last observed token; in particular no coalesced
\* local edit is pending unsent at the moment the cache is replaced by the
\* reloaded data.
C15_NoPendingEditAtReload ==
    [][/\ (watcher = "Checking" /\ watcher' = "Reconciling") =>
             (saveTimeouts' = FlushedTimeouts /\ loaded'.step = "folders")
       /\ ev'.op = "reload" =>
             /\ loaded.step = "tags"
             /\ lastToken' = fetched /\ watcher' = "Idle"
             /\ Pending = {}]_vars

C17_ExternalWriteReachesCache ==
    [][/\ ev'.op = "same" => \A n \in NoteIds : store[n].w.token <= lastToken
       /\ ev'.op = "reload" =>
             \A n \in NoteIds :
                 (/\ store[n].live
                  /\ lastToken < store[n].w.token
                  /\ store[n].w.token <= fetched) =>
                     /\ notes'[n].live
                     /\ notes'[n].title = store[n].w.title
                     /\ notes'[n].updatedAt = store[n].w.updatedAt
                     /\ notes'[n].folderId = store[n].folderId]_vars

C21_FlushBeforeSwitch ==
    [][/\ (activeNoteId' # activeNoteId \/ activeFolderId' # activeFolderId) =>
             /\ Pending' = {}
             /\ ev'.calls = Pending
       /\ ev'.op = "unload" => Pending' = {}]_vars

\* The notes that share the folder and the pinned state of note id.
GroupOf(ns, id) ==
    {n \in Ids(ns) : /\ NoteOf(ns, n).folderId = NoteOf(ns, id).folderId
                     /\ NoteOf(ns, n).pinned = NoteOf(ns, id).pinned}

C23_SortOrderUnique ==
    \A i, j \in DOMAIN dataNotes :
        (/\ i # j
         /\ dataNotes[i].folderId = dataNotes[j].folderId
         /\ dataNotes[i].pinned = dataNotes[j].pinned) =>
            dataNotes[i].sortOrder # dataNotes[j].sortOrder

\* C25: every cached note's folder id is the id of a cached folder.
C25_NotesHaveCachedFolder ==
    \A n \in NoteIds : notes[n].live => notes[n].folderId \in folders

\* The folders met on the way up from folder g, over at most k parent links.
RECURSIVE ChainUp(_, _, _)
ChainUp(fs, g, k) ==
    IF g = None \/ k = 0 THEN {} ELSE {g} \cup ChainUp(fs, fs[g].parentId, k - 1)

\* Folder F and the folders below it.
Subtree(fs, F) ==
    {g \in TreeFolders : fs[g].live /\ F \in ChainUp(fs, g, Cardinality(TreeFolders))}

\* C24: deleteFolder(F) removes from the cache, in the step that invokes
\* delete_folder, exactly F, the folders below F and the notes in any of them; the
\* other folders, notes and tags stay as they were; if the active folder was one
\* of the removed folders, the active folder and the active note become none.
C24_DeleteFolderRemovesSubtree ==
    [][ev'.op = "deleteFolder" =>
          LET gone == Subtree(dataFolders, ev'.id)
          IN  /\ ev'.calls = {"delete_folder"}
              /\ \A f \in TreeFolders :
                    dataFolders'[f] = IF f \in gone THEN NoFolder ELSE dataFolders[f]
              /\ dataNotes' = SelectSeq(dataNotes, LAMBDA n : n.folderId \notin gone)
              /\ dataTags' = dataTags
              /\ foldersById' = foldersById \ gone
              /\ notesById' = Ids(dataNotes')
              /\ activeFolderId \in gone =>
                    activeFolderId' = None /\ activeNoteId' = None
              /\ activeFolderId \notin gone => activeFolderId' = activeFolderId]_vars

\* A folder with a folder below it and a note was deleted while it held the active
\* folder, and another folder is left.
C24_Witness ==
    /\ ev.op = "deleteFolder"
    /\ Cardinality(ev.dropped \cap TreeFolders) >= 2
    /\ ev.dropped \cap ListNotes # {}
    /\ activeFolderId = None /\ activeNoteId = None
    /\ \E f \in TreeFolders : dataFolders[f].live

\* C26: the parent relation of the cached folders has no cycle: no folder is met
\* on the way up from its own parent.
C26_ParentsFormForest ==
    \A f \in TreeFolders :
        dataFolders[f].live =>
            f \notin ChainUp(dataFolders, dataFolders[f].parentId, Cardinality(TreeFolders))

\* C27: the index maps are what rebuildIndexes would compute from the lists.
C27_IndexesMatchRebuild ==
    /\ notesById = RebuiltNotesById(dataNotes)
    /\ foldersById = RebuiltFoldersById(dataFolders)
    /\ notesByFolderId = RebuiltNotesByFolderId(dataNotes, dataFolders)
    /\ notesCountByFolder = RebuiltNotesCountByFolder(dataNotes, dataFolders)
    /\ tagsById = RebuiltTagsById(dataTags)

\* C28: a step in which a handler that changes folders, notes or tags invokes its
\* store command also changes the cache: the change is not left to the step in
\* which the command's answer arrives.
C28_CacheChangesBeforeAnswer ==
    [][(/\ ev'.op \in {"addFolder", "deleteFolder", "moveFolder", "addNote", "deleteNote",
                       "togglePin", "dropabove", "dropbelow", "dropend",
                       "createTag", "deleteTag"}
        /\ ev'.calls # {}) => structVars' # structVars]_vars

\* The classes of candidates in the order of the resolution, and whether a
\* candidate of a class exists.
ClassOrder == <<"env", "pref_bin", "app_bridge", "app_main_cli", "local", "cargo">>

ClassExists(files, class) ==
    CASE class = "env" -> File("env", "set") \in files
      [] class = "pref_bin" -> File("pref", "set") \in files
      [] class = "app_bridge" -> \E f \in files : f.kind = "app_bridge"
      [] class = "app_main_cli" -> \E f \in files : f.kind = "app_main"
      [] class = "local" -> \E f \in files : /\ f.kind = "local"
                                             /\ File("manifest", f.at) \in files
      [] class = "cargo" -> \E f \in files : f.kind = "manifest"

\* C29: a resolution gives a candidate of the first class, in the fixed order, of
\* which a candidate exists, and an error when no class has one; a class later
\* in the order is never chosen while an earlier one exists.
C29_FirstExistingCandidate ==
    [][ev'.op = "resolve" =>
          IF \E i \in DOMAIN ClassOrder : ClassExists(candidates, ClassOrder[i])
          THEN \E i \in DOMAIN ClassOrder :
                  /\ resolved'.source = ClassOrder[i]
                  /\ ClassExists(candidates, ClassOrder[i])
                  /\ \A j \in 1..(i - 1) : ~ClassExists(candidates, ClassOrder[j])
                  /\ resolved'.source \notin {"cargo"} => resolved'.cmd \in candidates
                  /\ resolved'.source = "app_main_cli" <=> resolved'.args = <<"--bridge-cli">>
          ELSE resolved'.source = "error"]_vars

\* The installed application and a development-tree build both exist and a request
\* was resolved to the application in protocol-only mode.
C29_Witness ==
    /\ ev.op = "resolve"
    /\ resolved.source = "app_main_cli"
    /\ File("local", "r1") \in candidates /\ File("manifest", "r1") \in candidates
    /\ File("app_main", "home") \in candidates

\* C30: with no override, no preference binary and no installed application, a
\* resolution gives the development-tree binary when it exists, and otherwise
\* fails with an error that names every candidate tried.
C30_FallsThroughOrFails ==
    [][(/\ ev'.op = "resolve"
        /\ \A f \in candidates : f.kind \notin {"env", "pref", "app_bridge", "app_main"}) =>
          IF ClassExists(candidates, "local")
          THEN resolved'.source = "local"
          ELSE /\ resolved'.source = "error"
               /\ {"env", "pref", "app_bridge", "app_main", "local"} \subseteq resolved'.named]_vars

\* C31: the timeout of a bridge invocation depends on the class of the chosen
\* candidate only: an invocation through env, pref_bin, app_bridge, app_main_cli
\* or local runs under the default timeout, and an invocation through cargo, and
\* no other, runs under the extended timeout; the timeout stays what it was set
\* to until the invocation has ended.
C31_TimeoutByClass ==
    [][/\ call'.source \in {"env", "pref_bin", "app_bridge", "app_main_cli", "local"}
            => call'.timeoutMs = "default"
       /\ call'.source = "cargo" <=> call'.timeoutMs = "extended"
       /\ ev'.op # "resolve" => call'.timeoutMs = call.timeoutMs]_vars

C31_Witness ==
    /\ call.source = "cargo" /\ call.timeoutMs = "extended"
    /\ call.timeoutHit /\ call.outcome.kind = "timeout"

\* C32: an invocation ends in one outcome. The child is killed when the timer of
\* the invocation fires and at no other step, and that step ends the invocation
\* with the timeout error; once the invocation has an outcome, no later event of
\* the child changes it or writes another failure report, so an invocation
\* writes one failure report at most.
C32_OneOutcome ==
    [][/\ ev'.op = "timeout" => call'.outcome.kind = "timeout" /\ call'.kills = call.kills + 1
       /\ ev'.op # "timeout" => call'.kills = IF ev'.op = "resolve" THEN 0 ELSE call.kills
       /\ ev'.op # "resolve" /\ call.outcome.kind # "pending"
            => call'.outcome = call.outcome /\ call'.reports = call.reports
       /\ Len(call'.reports) <= 1]_vars

\* The code a failure response is thrown with.
CodeOf(out) == IF out.code = "" THEN "INTERNAL" ELSE out.code

\* C33: when the child of an invocation closes with exit status 0, before the
\* timeout and without a spawn error, and what it wrote is a failure response,
\* the invocation throws the typed error with the code of the response, INTERNAL
\* when the response has none; the typed error is thrown in no other case.
C33_TypedErrorOnCleanExit ==
    [][/\ ( /\ ev'.op = "close" /\ ev'.outcome = "0"
            /\ ~call.spawnFailed /\ ~call.timeoutHit
            /\ call.stdout.json /\ ~call.stdout.ok )
          => call'.outcome = Ended("BridgeError", CodeOf(call.stdout))
       /\ call'.outcome.kind = "BridgeError"
          => /\ call'.stdout.json /\ ~call'.stdout.ok
             /\ call'.outcome.code = CodeOf(call'.stdout)
             /\ call'.child = "closed" /\ ~call'.timeoutHit /\ ~call'.spawnFailed]_vars

C33_Witness ==
    /\ call.outcome = Ended("BridgeError", "CONFLICT")
    /\ call.stdout = Output(TRUE, FALSE, FALSE, "CONFLICT")

\* C33 as stated: whenever the child has answered with a failure response, the
\* invocation ends with the typed error of that code.
C33_FailureResponseTyped ==
    (call.child = "closed" /\ call.stdout.json /\ ~call.stdout.ok)
        => call.outcome = Ended("BridgeError", CodeOf(call.stdout))

\* The log events of the failures C34 names.
FailureEvents ==
    {"bridge_resolution_failed", "spawn_error", "bridge_exit_nonzero", "bridge_invalid_json"}

\* C34: every log event written for a resolution failure, a spawn failure, a
\* non-zero exit or a malformed response holds the candidates evaluated
\* (diagnostics), the chosen path (cmd) and the timeout (timeout_ms); and each
\* invocation that fails in one of these ways has written such an event.
C34_FailuresLoggedWithContext ==
    /\ \A i \in 1..Len(call.reports) :
          call.reports[i].event \in FailureEvents
              => {"diagnostics", "cmd", "timeout_ms"} \subseteq call.reports[i].fields
    /\ call.outcome.kind \in {"unresolved", "not_found", "launch_failed", "unsupported",
                              "exit", "no_response", "invalid_json"}
          => \E i \in 1..Len(call.reports) : call.reports[i].event \in FailureEvents

\* C35: every update request and every delete request the extension sends holds
\* an expected update timestamp, and it is the timestamp of the version the
\* extension had loaded when the user started the action: the one the form
\* loaded for an update, the one of the selected note or of the list item for a
\* delete.
C35_RequestsCarryLoadedStamp ==
    [][ev'.op \in {"submit", "delete"}
         => /\ ui'.request.updated_at.has
            /\ ev'.op = "submit" => ui'.request.updated_at = ui.loadedUpdatedAt
            /\ ev'.op = "delete" => ui'.request.updated_at.at \in {ui.selectedNote.at, ui.items}]_vars

\* The cached note and the store's row say the same: both absent, or the same
\* title, folder and update timestamp, and the same body once it was fetched.
SameEntity(note, row) ==
    /\ note.live = row.live
    /\ note.live =>
          /\ note.title = row.title
          /\ note.folderId = row.folderId
          /\ note.updatedAt = row.updatedAt
          /\ note.body # Null => note.body = row.body

\* C36: whenever the watcher is Idle, no save timer is pending, no request is in
\* flight and the last observed token is the store's token, the cache holds the
\* folders, the notes and the tags the store holds.
C36_CaughtUpCacheEqualsStore ==
    (watcher = "Idle" /\ Pending = {} /\ inflight = {} /\ lastToken = token)
        => /\ folders = storeFolders
           /\ tags = storeTags
           /\ \A n \in NoteIds : SameEntity(notes[n], store[n])

\* C37: an edit made while a cycle is suspended is not replaced in the cache by
\* reloaded data before it was written: at the step that replaces the cache, a
\* note whose save timer is pending (armed by an edit made after the flush of the
\* cycle) keeps the title, body and update timestamp of the edit.
C37_EditDuringCycleKept ==
    [][ev'.op = "reload" =>
          \A n \in NoteIds :
              (notes[n].live /\ saveTimeouts[n].pending /\ ~saveTimeouts[n].detached)
                  => SameFields(notes'[n], notes[n])]_vars

\* C38: once a note has been deleted from the cache, no update_note for it is
\* issued any more: neither the save timer that was pending at the delete nor a
\* flush writes it.
C38_NoWriteAfterDelete ==
    [][\A n \in NoteIds : ~notes[n].live => IssuedFor(n) = {}]_vars

\* C39: no update_note carries the placeholder body of a note whose body has not
\* been fetched: the body of every update_note issued is text.
C39_NoPlaceholderBodyWritten ==
    [][\A m \in Issued : m.cmd = "update_note" => m.body # Null]_vars

\* C40: a non-null active note id names a cached note, and when the active folder
\* is non-null that note is in the active folder.
C40_ActiveNoteInActiveFolder ==
    activeNoteId # None =>
        /\ activeNoteId \in notesById
        /\ activeNoteId \in Ids(dataNotes)
        /\ activeFolderId # None => NoteOf(dataNotes, activeNoteId).folderId = activeFolderId

=============================================================================
